---- MODULE Spec2Model ----
(***************************************************************************)
(* Event-occurrence scheduling and idempotent job processing of the        *)
(* reminder service: the occurrence calculator, the event scheduler, the   *)
(* recovery scanner, the queue, the job worker with its processors, the    *)
(* job registry and the legacy birthday-message worker.                    *)
(*                                                                         *)
(* Instants are minutes since 1970-01-01T00:00Z.  The server's own time    *)
(* zone is UTC, so getYear/new Date(y, m, d) of the source read and build  *)
(* UTC calendar fields.                                                    *)
(***************************************************************************)
EXTENDS Integers, Sequences, FiniteSets, TLC

VARIABLES
    now,        \* the wall clock (new Date()), minutes since the epoch
    events,     \* recurring_events joined with the owner's timezone
    rows,       \* scheduled_notifications, in insertion order (id = index)
    queue,      \* every message ever sent to the queue, with its queue state
    sched,      \* per scheduler replica: position in scheduleUpcomingOccurrences
    rec,        \* per recovery replica: position in recoverMissedOccurrences
    runs,       \* scheduler runs and recovery runs started so far
    processors, \* JobRegistry.processors: job type -> registered processor
    worker,     \* per worker replica: the batch in flight, per message position
    deliveries, \* per row id: notifications that left the system for it
    metrics,    \* metrics recorded so far: <<metric name, message id>>
    invoked,    \* message ids a processor's process() was called for
    deleteCalls, \* message ids deleteMessage was called for
    loop,       \* per worker replica: how its last poll ended and the sleep after it
    shutdownRequested, \* per worker replica: JobWorkerService.shutdownRequested
    isRunning,  \* per worker replica: JobWorkerService.isRunning
    sinkUp,     \* whether CloudWatch accepts PutMetricData
    initialized, \* JobRegistry.initialized
    lastRegister, \* the last JobRegistry.register call and whether it threw
    birthdayMessages, \* birthday_messages of the legacy worker, by id
    legacyWorker, \* per legacy worker instance: position in startProcessing
    attempts,   \* delivery attempts of the legacy worker, in order
    sqsSent,    \* messages the legacy worker sent to the queue and the DLQ
    clock,      \* NOW() of the legacy worker, seconds
    failedAttempts, \* per row id: attempts that wrote it FAILED after a failed send
    batchCounts \* per worker replica: what its last batch reported

vars == <<now, events, rows, queue, sched, rec, runs, processors, worker,
          deliveries, metrics, invoked, deleteCalls, loop, shutdownRequested,
          isRunning, sinkUp, initialized, lastRegister, birthdayMessages,
          legacyWorker, attempts, sqsSent, clock, failedAttempts,
          batchCounts>>

schedVars == <<sched>>
recVars == <<rec>>
runVars == <<runs>>
lifeVars == <<shutdownRequested, isRunning>>
sinkVars == <<sinkUp>>
registryVars == <<initialized, lastRegister>>
legacyVars == <<birthdayMessages, legacyWorker, attempts, sqsSent, clock>>
historyVars == <<failedAttempts, batchCounts>>
workerVars ==
    <<processors, worker, deliveries, metrics, invoked, deleteCalls, loop,
      lifeVars, sinkVars, registryVars, legacyVars, historyVars>>

-----------------------------------------------------------------------------
(* Bounds of the model *)

MaxTicks == 1
MaxSchedRuns == 2
MaxRecRuns == 1

Schedulers == {"s1", "s2"}
Recoverers == {"r1"}
Workers == {"w1"}

-----------------------------------------------------------------------------
(* Calendar arithmetic (JavaScript Date / date-fns, server zone UTC) *)

MinPerHour == 1 * 60
MinPerDay == 24 * 60

Years == 2023..2027

isLeapYear(year) ==
    (year % 4 = 0 /\ year % 100 # 0) \/ year % 400 = 0

\* Days from 1970-01-01 to the civil date y-m-d (m in 1..12).
DaysFromCivil(y, m, d) ==
    LET yy == IF m <= 2 THEN y - 1 ELSE y
        era == yy \div 400
        yoe == yy - era * 400
        mp == IF m > 2 THEN m - 3 ELSE m + 9
        doy == (153 * mp + 2) \div 5 + d - 1
        doe == yoe * 365 + yoe \div 4 - yoe \div 100 + doy
    IN  era * 146097 + doe - 719468

\* new Date(year, month, day, hours, minutes): month is 0-indexed.
NewDate(year, month, day, hours, minutes) ==
    DaysFromCivil(year, month + 1, day) * MinPerDay + hours * MinPerHour + minutes

\* getYear(date)
getYear(t) ==
    CHOOSE y \in Years : NewDate(y, 0, 1, 0, 0) <= t /\ t < NewDate(y + 1, 0, 1, 0, 0)

\* 0 = Sunday; 1970-01-01 was a Thursday.
Weekday(days) == (days + 4) % 7

\* The n-th Sunday (n >= 1) of month m (1..12) of year y, as a day count.
NthSunday(y, m, n) ==
    LET first == DaysFromCivil(y, m, 1)
    IN  first + ((7 - Weekday(first)) % 7) + 7 * (n - 1)

-----------------------------------------------------------------------------
(* Time zones: the part of the IANA database the model carries *)

Timezones == {"UTC", "America/New_York", "Asia/Tokyo"}

\* A check that accepts every identifier.
AnyTimezone(timezone) == TRUE

\* TimezoneUtil.isValidTimezone
isValidTimezone(timezone) == timezone \in Timezones

\* A zone that never leaves standard time.
StandardOffset(timezone, wall) ==
    CASE timezone = "America/New_York" -> -5 * MinPerHour
      [] timezone = "Asia/Tokyo" -> 9 * MinPerHour
      [] OTHER -> 0

\* The zone's offset from UTC, in minutes, at the local wall-clock reading
\* `wall` (minutes since the epoch read as if the wall clock were UTC).
ZoneOffset(timezone, wall) ==
    CASE timezone = "America/New_York" ->
            LET y == getYear(wall)
                dstStart == NthSunday(y, 3, 2) * MinPerDay + 2 * MinPerHour
                dstEnd == NthSunday(y, 11, 1) * MinPerDay + 2 * MinPerHour
            IN  IF dstStart <= wall /\ wall < dstEnd
                THEN -4 * MinPerHour ELSE -5 * MinPerHour
      [] timezone = "Asia/Tokyo" -> 9 * MinPerHour
      [] OTHER -> 0

\* date-fns-tz fromZonedTime(localDate, timezone)
fromZonedTime(wall, timezone) == wall - ZoneOffset(timezone, wall)

\* TimezoneUtil.toUtc(localTime, timezone, date); date is <<year, month, day>>
toUtc(localTime, timezone, date) ==
    fromZonedTime(NewDate(date[1], date[2], date[3], localTime[1], localTime[2]),
                  timezone)

-----------------------------------------------------------------------------
(* Occurrence calculator *)

\* An occurrence date that keeps 29 February whatever the year.
KeepsFeb29(month, day, year, policy) == <<year, month, day>>

\* buildOccurrenceDate(month, day, year, policy): <<year, month, day>>
buildOccurrenceDate(month, day, year, policy) ==
    IF month = 1 /\ day = 29 /\ ~isLeapYear(year)
    THEN <<year, 1, 28>>
    ELSE <<year, month, day>>

\* nextOccurrence(event, fromDate, timezone, policy); the caller has checked
\* the timezone (NextOccurrenceThrows).
nextOccurrence(event, fromDate, timezone, policy) ==
    LET currentYear == getYear(fromDate)
        thisYear == toUtc(event.notificationTime, timezone,
                        buildOccurrenceDate(event.month, event.day, currentYear, policy))
        nextYear == toUtc(event.notificationTime, timezone,
                        buildOccurrenceDate(event.month, event.day, currentYear + 1, policy))
    IN  IF ~(thisYear > fromDate) THEN nextYear ELSE thisYear

NextOccurrenceThrows(timezone) == ~isValidTimezone(timezone)

\* A key that leaves the year out.
KeyWithoutYear(eventId, year) == "event:" \o eventId

\* generateIdempotencyKey(eventId, year): `event:${eventId}:${year}`
generateIdempotencyKey(eventId, year) ==
    "event:" \o eventId \o ":" \o ToString(year)

-----------------------------------------------------------------------------
(* The store *)

\* recurring_events (enabled) joined with users.timezone.  The second event's
\* kind is fixed at start-up: ANNIVERSARY, or CUSTOM, a kind of the event_type
\* enum that getJobTypeForEvent does not map.
EventTable(kind2) ==
    << [id |-> "e1", type |-> "BIRTHDAY", userId |-> "u1", month |-> 2, day |-> 10,
        notificationTime |-> <<9, 0>>, enabled |-> TRUE,
        timezone |-> "America/New_York"],
       [id |-> "e2", type |-> kind2, userId |-> "u2", month |-> 2, day |-> 9,
        notificationTime |-> <<10, 0>>, enabled |-> TRUE,
        timezone |-> "Asia/Tokyo"] >>

EventKinds == {"ANNIVERSARY", "CUSTOM"}

EventIds == {"e1", "e2"}

EventById(id) == CHOOSE i \in 1..Len(events) : events[i].id = id

\* recurringEvent.findMany({ where: { enabled: true }, include: { user } }):
\* the ids of the enabled events, in table order.
RECURSIVE EnabledIdsFrom(_)
EnabledIdsFrom(i) ==
    IF i > Len(events) THEN <<>>
    ELSE (IF events[i].enabled THEN <<events[i].id>> ELSE <<>>) \o EnabledIdsFrom(i + 1)

findManyEnabled == EnabledIdsFrom(1)

\* A table without the unique index.
NoUniqueIndex(rs, eventId, scheduledFor) == FALSE

\* The unique index scheduled_notifications_event_id_scheduled_for_key: would
\* inserting (eventId, scheduledFor) into rs violate it (Prisma P2002)?
UniqueViolation(rs, eventId, scheduledFor) ==
    \E i \in 1..Len(rs) :
        rs[i].eventId = eventId /\ rs[i].scheduledFor = scheduledFor

\* The row scheduledNotification.create stores.
NewRow(rs, eventId, scheduledFor) ==
    [id |-> Len(rs) + 1, eventId |-> eventId, scheduledFor |-> scheduledFor,
     status |-> "PENDING", retryCount |-> 0]

\* A lookup that finds no row.
findNothing(rs, eventId, scheduledFor) == 0

\* scheduledNotification.findFirst({ where: { eventId, scheduledFor } }):
\* the index of the first matching row, 0 when there is none.
findFirst(rs, eventId, scheduledFor) ==
    IF \E i \in 1..Len(rs) :
          rs[i].eventId = eventId /\ rs[i].scheduledFor = scheduledFor
    THEN CHOOSE i \in 1..Len(rs) :
            /\ rs[i].eventId = eventId /\ rs[i].scheduledFor = scheduledFor
            /\ \A j \in 1..(i - 1) :
                  ~(rs[j].eventId = eventId /\ rs[j].scheduledFor = scheduledFor)
    ELSE 0

-----------------------------------------------------------------------------
(* Job envelopes and the queue *)

JobTypes == {"BIRTHDAY_NOTIFICATION", "ANNIVERSARY_NOTIFICATION"}

\* getJobTypeForEvent(eventType); "" stands for the thrown Unknown EventType.
getJobTypeForEvent(eventType) ==
    CASE eventType = "BIRTHDAY" -> "BIRTHDAY_NOTIFICATION"
      [] eventType = "ANNIVERSARY" -> "ANNIVERSARY_NOTIFICATION"
      [] OTHER -> ""

JobTypeThrows(eventType) == getJobTypeForEvent(eventType) = ""

\* The envelope the scheduler and the recovery scanner build.
Envelope(event, occurrence, year, idempotencyKey) ==
    [type |-> getJobTypeForEvent(event.type),
     version |-> 1,
     idempotencyKey |-> idempotencyKey,
     payload |-> [isNull |-> FALSE, lacksFields |-> FALSE, eventId |-> event.id, userId |-> event.userId,
                  scheduledFor |-> occurrence, eventType |-> event.type,
                  year |-> year]]

\* JSON.stringify(envelope): the body is the JSON text of an object that
\* has exactly the envelope's four fields.
Stringify(envelope) ==
    [json |-> "object", fields |-> {"type", "version", "idempotencyKey", "payload"},
     value |-> envelope]

\* SqsService.sendMessage, when the transport accepts the message.
SendMessage(q, envelope) ==
    Append(q, [body |-> Stringify(envelope), receiveCount |-> 0, st |-> "visible"])

-----------------------------------------------------------------------------
(* Event scheduler: EventSchedulerService.scheduleUpcomingOccurrences, one    *)
(* step per awaited call                                                     *)

SchedIdle ==
    [pc |-> "idle", todo |-> <<>>, event |-> "", occ |-> 0, year |-> 0,
     scheduled |-> 0, outcome |-> "none", result |-> -1]

\* A loop that gives up the rest of the batch when an event ends in an
\* error.
SchedAbort(s, outcome, scheduled) ==
    [s EXCEPT !.pc = "compute",
              !.todo = IF outcome \in {"scheduled", "duplicate"}
                       THEN Tail(s.todo) ELSE <<>>,
              !.outcome = outcome, !.scheduled = scheduled]

\* The for-loop moves on to the next event, the current one having ended as
\* `outcome`: scheduled, duplicate (P2002: already scheduled) or the error
\* that the per-event catch logged.
SchedAdvance(s, outcome, scheduled) ==
    [s EXCEPT !.pc = "compute", !.todo = Tail(s.todo), !.outcome = outcome,
              !.scheduled = scheduled]

\* Lines 58-83: findMany; no enabled event returns 0 at once.
SchedStart(r) ==
    /\ sched[r].pc = "idle"
    /\ runs.sched < MaxSchedRuns
    /\ runs' = [runs EXCEPT !.sched = @ + 1]
    /\ sched' = [sched EXCEPT ![r] =
            IF findManyEnabled = <<>>
            THEN [@ EXCEPT !.result = 0, !.outcome = "none"]
            ELSE [@ EXCEPT !.pc = "compute", !.todo = findManyEnabled,
                           !.event = "", !.occ = 0, !.year = 0,
                           !.scheduled = 0, !.outcome = "none", !.result = -1]]
    /\ UNCHANGED <<now, events, rows, queue, recVars, workerVars>>

\* Lines 85-98: nextOccurrence from new Date(), getYear, the key.
SchedCompute(r) ==
    LET s == sched[r]
        e == events[EventById(Head(s.todo))]
    IN  /\ s.pc = "compute"
        /\ s.todo # <<>>
        /\ sched' = [sched EXCEPT ![r] =
                IF NextOccurrenceThrows(e.timezone)
                THEN SchedAdvance([s EXCEPT !.event = e.id, !.occ = 0, !.year = 0],
                                  "error: Invalid timezone", s.scheduled)
                ELSE LET occurrence == nextOccurrence(e, now, e.timezone, "USE_FEB_28")
                     IN  [s EXCEPT !.pc = "insert", !.event = e.id,
                                   !.occ = occurrence,
                                   !.year = getYear(occurrence)]]
        /\ UNCHANGED <<now, events, rows, queue, recVars, runVars, workerVars>>

\* A createScheduledNotification that rethrows P2002 like any other error.
createRethrowsP2002(rs, eventId, scheduledFor, storeOk) ==
    IF ~storeOk THEN "error: store"
    ELSE IF UniqueViolation(rs, eventId, scheduledFor) THEN "error: P2002"
    ELSE "created"

\* createScheduledNotification, lines 164-200: "created" when the row was
\* inserted, "null" when the insert answered P2002 (already scheduled), and
\* the error it rethrows otherwise.
createScheduledNotification(rs, eventId, scheduledFor, storeOk) ==
    IF ~storeOk THEN "error: store"
    ELSE IF UniqueViolation(rs, eventId, scheduledFor) THEN "null"
    ELSE "created"

\* A run that enqueues whether or not its insert stored the row.
NeverSkips(created) == FALSE

\* Line 106: `if (notification) { ... }` - a null notification enqueues
\* nothing.
SkipsEnqueue(created) == created = "null"

\* Lines 100-109: the insert, then the kind-to-job-type mapping.
SchedInsert(r) ==
    LET s == sched[r]
        e == events[EventById(Head(s.todo))]
    IN  /\ s.pc = "insert"
        /\ \E storeOk \in BOOLEAN :
            LET created == createScheduledNotification(rows, e.id, s.occ, storeOk)
            IN  /\ rows' = IF created = "created"
                           THEN Append(rows, NewRow(rows, e.id, s.occ))
                           ELSE rows
                /\ sched' = [sched EXCEPT ![r] =
                        IF created \notin {"created", "null"}
                        THEN SchedAdvance(s, created, s.scheduled)
                        ELSE IF SkipsEnqueue(created)
                        THEN SchedAdvance(s, "duplicate", s.scheduled)
                        ELSE IF JobTypeThrows(e.type)
                        THEN SchedAdvance(s, "error: Unknown EventType", s.scheduled)
                        ELSE [s EXCEPT !.pc = "enqueue"]]
        /\ UNCHANGED <<now, events, queue, recVars, runVars, workerVars>>

\* Lines 110-124: sendMessage, then scheduled++; a failed send is caught.
SchedEnqueue(r) ==
    LET s == sched[r]
        e == events[EventById(Head(s.todo))]
        envelope == Envelope(e, s.occ, s.year, generateIdempotencyKey(e.id, s.year))
    IN  /\ s.pc = "enqueue"
        /\ \E sendOk \in BOOLEAN :
            IF sendOk
            THEN /\ queue' = SendMessage(queue, envelope)
                 /\ sched' = [sched EXCEPT ![r] =
                        SchedAdvance(s, "scheduled", s.scheduled + 1)]
            ELSE /\ sched' = [sched EXCEPT ![r] =
                        SchedAdvance(s, "error: send", s.scheduled)]
                 /\ UNCHANGED queue
        /\ UNCHANGED <<now, events, rows, recVars, runVars, workerVars>>

\* A sink whose failure reaches the caller.
SinkPropagates(up) == ~up

\* CloudWatchService.recordMetric, lines 48-82: a PutMetricData that fails is
\* caught and logged; recordMetric, and with it every record... method built
\* on it, never throws.
recordMetricThrows(up) == FALSE

\* What a run returns after its metric call: the count, or nothing (-1) when
\* the call threw, which the outer catch (lines 144-148) rethrows.
SchedReturned(scheduled, threw) == IF threw THEN -1 ELSE scheduled

\* Lines 135-144: the loop is over; record the metric, return the count.
SchedFinish(r) ==
    LET s == sched[r]
    IN  /\ s.pc = "compute"
        /\ s.todo = <<>>
        /\ sched' = [sched EXCEPT ![r] =
                [s EXCEPT !.pc = "idle", !.scheduled = 0,
                          !.result = SchedReturned(s.scheduled,
                                                   recordMetricThrows(sinkUp))]]
        /\ metrics' = metrics \cup {<<"SchedulerMessagesCreated", 0>>}
        /\ UNCHANGED <<now, events, rows, queue, recVars, runVars, processors,
                       worker, deliveries, invoked, deleteCalls, loop,
                       lifeVars, sinkVars,
                       registryVars, legacyVars,
                   historyVars>>

-----------------------------------------------------------------------------
(* Recovery scanner: EventRecoveryService.recoverMissedOccurrences *)

GracePeriodMinutes == 7200

\* this.gracePeriodHours = gracePeriodMinutes / 60
gracePeriodHours == GracePeriodMinutes \div 60

\* A difference that reads every occurrence as just due.
NoAge(later, earlier) == 0

\* date-fns differenceInHours(later, earlier): whole hours, truncated.
differenceInHours(later, earlier) ==
    IF later >= earlier THEN (later - earlier) \div 60
    ELSE -((earlier - later) \div 60)

RecIdle ==
    [pc |-> "idle", todo |-> <<>>, years |-> <<>>, startedAt |-> 0, occ |-> 0,
     totalMissed |-> 0, recovered |-> 0, skipped |-> 0, alreadyScheduled |-> 0,
     outcome |-> "none", result |-> <<>>]

\* const yearsToCheck = [currentYear - 1, currentYear, currentYear + 1]
yearsToCheck(t) == <<getYear(t) - 1, getYear(t), getYear(t) + 1>>

\* `continue`, a return of recoverOccurrence, or the per-year catch: on to the
\* next year, and after the last year to the next event.  `outcome` is what
\* the year ended as: future, stale, alreadyScheduled, recovered, skipped, or
\* the error the per-year catch logged.
RecAdvance(s, outcome) ==
    IF Len(s.years) > 1
    THEN [s EXCEPT !.pc = "check", !.years = Tail(s.years), !.occ = 0,
                   !.outcome = outcome]
    ELSE [s EXCEPT !.pc = "check", !.todo = Tail(s.todo), !.occ = 0,
                   !.years = yearsToCheck(s.startedAt), !.outcome = outcome]

\* Lines 84-116: `now` is read once per run.
RecStart(r) ==
    /\ rec[r].pc = "idle"
    /\ runs.rec < MaxRecRuns
    /\ runs' = [runs EXCEPT !.rec = @ + 1]
    /\ rec' = [rec EXCEPT ![r] =
            IF findManyEnabled = <<>>
            THEN [@ EXCEPT !.result = <<0, 0, 0, 0>>, !.outcome = "none"]
            ELSE [@ EXCEPT !.pc = "check", !.todo = findManyEnabled,
                           !.years = yearsToCheck(now), !.startedAt = now,
                           !.totalMissed = 0, !.recovered = 0, !.skipped = 0,
                           !.alreadyScheduled = 0, !.outcome = "none",
                           !.result = <<>>]]
    /\ UNCHANGED <<now, events, rows, queue, schedVars, workerVars>>

\* Lines 126-135: the occurrence of the event in one year of yearsToCheck.
RecOccurrence(e, year) ==
    nextOccurrence(e, NewDate(year, 0, 1, 0, 0), e.timezone, "USE_FEB_28")

\* A scan that takes every occurrence as due.
AlwaysDue(occurrence, startedAt) == FALSE

\* Line 138: `if (occurrence >= now) continue`.
NotYetDue(occurrence, startedAt) == occurrence >= startedAt

\* Lines 143-144: hoursLate > this.gracePeriodHours.
OutsideGrace(occurrence, startedAt) ==
    differenceInHours(startedAt, occurrence) > gracePeriodHours

\* Lines 124-175: the occurrence of one year, the two filters, the lookup.
RecCheck(r) ==
    LET s == rec[r]
        e == events[EventById(Head(s.todo))]
        year == Head(s.years)
        occurrence == RecOccurrence(e, year)
    IN  /\ s.pc = "check"
        /\ s.todo # <<>>
        /\ IF NextOccurrenceThrows(e.timezone)
           THEN rec' = [rec EXCEPT ![r] = RecAdvance(s, "error: Invalid timezone")]
           ELSE IF NotYetDue(occurrence, s.startedAt)
           THEN rec' = [rec EXCEPT ![r] = RecAdvance(s, "future")]
           ELSE IF OutsideGrace(occurrence, s.startedAt)
           THEN rec' = [rec EXCEPT ![r] = RecAdvance(s, "stale")]
           ELSE \E storeOk \in BOOLEAN :
                rec' = [rec EXCEPT ![r] =
                    IF ~storeOk THEN RecAdvance(s, "error: store")
                    ELSE IF findFirst(rows, e.id, occurrence) # 0
                    THEN RecAdvance([s EXCEPT !.alreadyScheduled = @ + 1],
                                    "alreadyScheduled")
                    ELSE [s EXCEPT !.pc = "insert", !.occ = occurrence,
                                   !.totalMissed = @ + 1]]
        /\ UNCHANGED <<now, events, rows, queue, schedVars, runVars, workerVars>>

\* A recoverOccurrence that rethrows P2002 like any other error.
recoverRethrowsP2002(rs, eventId, scheduledFor, storeOk) ==
    IF ~storeOk THEN "error: store"
    ELSE IF UniqueViolation(rs, eventId, scheduledFor) THEN "error: P2002"
    ELSE "created"

\* recoverOccurrence, lines 246-258 and 283-301: the create; "created" when
\* the row was stored, "false" when the insert answered P2002 (the function
\* returns false), and the error it rethrows otherwise.
recoverCreate(rs, eventId, scheduledFor, storeOk) ==
    IF ~storeOk THEN "error: store"
    ELSE IF UniqueViolation(rs, eventId, scheduledFor) THEN "false"
    ELSE "created"

\* recoverOccurrence, lines 246-258 and 283-301: the insert; P2002 returns
\* false (skipped); any other error is rethrown to the per-year catch.
RecInsert(r) ==
    LET s == rec[r]
        e == events[EventById(Head(s.todo))]
    IN  /\ s.pc = "insert"
        /\ \E storeOk \in BOOLEAN :
            LET created == recoverCreate(rows, e.id, s.occ, storeOk)
            IN  /\ rows' = IF created = "created"
                           THEN Append(rows, NewRow(rows, e.id, s.occ))
                           ELSE rows
                /\ rec' = [rec EXCEPT ![r] =
                        IF created = "false"
                        THEN RecAdvance([s EXCEPT !.skipped = @ + 1], "skipped")
                        ELSE IF created # "created"
                        THEN RecAdvance(s, created)
                        ELSE IF JobTypeThrows(e.type)
                        THEN RecAdvance(s, "error: Unknown EventType")
                        ELSE [s EXCEPT !.pc = "enqueue"]]
        /\ UNCHANGED <<now, events, queue, schedVars, runVars, workerVars>>

\* recoverOccurrence, lines 259-282: sendMessage; the key carries the year
\* of yearsToCheck.
RecEnqueue(r) ==
    LET s == rec[r]
        e == events[EventById(Head(s.todo))]
        year == Head(s.years)
        envelope == Envelope(e, s.occ, year, generateIdempotencyKey(e.id, year))
    IN  /\ s.pc = "enqueue"
        /\ \E sendOk \in BOOLEAN :
            IF sendOk
            THEN /\ queue' = SendMessage(queue, envelope)
                 /\ rec' = [rec EXCEPT ![r] =
                        RecAdvance([s EXCEPT !.recovered = @ + 1], "recovered")]
            ELSE /\ rec' = [rec EXCEPT ![r] = RecAdvance(s, "error: send")]
                 /\ UNCHANGED queue
        /\ UNCHANGED <<now, events, rows, schedVars, runVars, workerVars>>

\* What a scan returns after its metric call: the counts, or nothing when
\* the call threw, which the outer catch (lines 220-225) rethrows.
RecReturned(counts, threw) == IF threw THEN <<>> ELSE counts

\* Lines 206-219: record the metric, return the counts.
RecFinish(r) ==
    LET s == rec[r]
    IN  /\ s.pc = "check"
        /\ s.todo = <<>>
        /\ rec' = [rec EXCEPT ![r] =
                [s EXCEPT !.pc = "idle", !.years = <<>>, !.startedAt = 0,
                          !.totalMissed = 0, !.recovered = 0, !.skipped = 0,
                          !.alreadyScheduled = 0,
                          !.result = RecReturned(
                              <<s.totalMissed, s.recovered, s.skipped,
                                s.alreadyScheduled>>,
                              recordMetricThrows(sinkUp))]]
        /\ metrics' = metrics \cup {<<"RecoveryMessagesRecovered", 0>>}
        /\ UNCHANGED <<now, events, rows, queue, schedVars, runVars, processors,
                       worker, deliveries, invoked, deleteCalls, loop,
                       lifeVars, sinkVars,
                       registryVars, legacyVars,
                   historyVars>>

\* Where a replica's polling loop stands: how its last pollAndProcessBatch
\* ended (none before the first one and while a batch is in progress) and the
\* sleep startPolling took after it, in milliseconds.
Loop(ended, slept) == [ended |-> ended, slept |-> slept]

LoopIdle == Loop("none", 0)

\* No batch has reported in this round of the loop.
NoCounts == <<>>

\* No register call yet.
NoRegister == [type |-> "", processor |-> "", threw |-> FALSE]

\* Hosts a legacy birthday worker may run on (process.env.HOSTNAME).
Instances == {"host1", "host2"}

\* A legacy worker instance: enabled is worker.enabled of its configuration;
\* pc is "idle" before claimMessages, "batch" while the claimed messages are
\* processed, "sleep" during the sleep between batches, which ends at wake.
LegacyWorker(enabled, pc, batch, wake) ==
    [enabled |-> enabled, pc |-> pc, batch |-> batch, wake |-> wake]

\* worker.enabled is false by default, and there are no birthday messages.
LegacyOff ==
    /\ birthdayMessages = <<>>
    /\ legacyWorker = [i \in Instances |-> LegacyWorker(FALSE, "idle", {}, 0)]
    /\ attempts = <<>>
    /\ sqsSent = {}
    /\ clock = 0

-----------------------------------------------------------------------------
(* The clock *)

StartInstant == NewDate(2025, 2, 8, 0, 0)

JumpDays == 3

Tick ==
    /\ now < StartInstant + MaxTicks * JumpDays * MinPerDay
    /\ now' = now + JumpDays * MinPerDay
    /\ UNCHANGED <<events, rows, queue, schedVars, recVars, runVars, workerVars>>

-----------------------------------------------------------------------------
(* Scheduling and recovery, from an empty store and an empty queue *)

Init ==
    /\ now = StartInstant
    /\ events = SubSeq(EventTable("ANNIVERSARY"), 1, 1)
    /\ rows = <<>>
    /\ queue = <<>>
    /\ sched = [r \in Schedulers |-> SchedIdle]
    /\ rec = [r \in Recoverers |-> RecIdle]
    /\ runs = [sched |-> 0, rec |-> 0]
    /\ processors = <<>>
    /\ worker = [w \in Workers |-> <<>>]
    /\ deliveries = <<>>
    /\ metrics = {}
    /\ invoked = {}
    /\ deleteCalls = {}
    /\ loop = [w \in Workers |-> LoopIdle]
    /\ shutdownRequested = [w \in Workers |-> FALSE]
    /\ isRunning = [w \in Workers |-> TRUE]
    /\ sinkUp = TRUE
    /\ initialized = FALSE
    /\ lastRegister = NoRegister
    /\ LegacyOff
    /\ failedAttempts = <<>>
    /\ batchCounts = [w \in Workers |-> NoCounts]

NextSched ==
    \/ Tick
    \/ \E r \in Schedulers : SchedStart(r)
    \/ \E r \in Schedulers : SchedCompute(r)
    \/ \E r \in Schedulers : SchedInsert(r)
    \/ \E r \in Schedulers : SchedEnqueue(r)
    \/ \E r \in Schedulers : SchedFinish(r)
    \/ \E r \in Recoverers : RecStart(r)
    \/ \E r \in Recoverers : RecCheck(r)
    \/ \E r \in Recoverers : RecInsert(r)
    \/ \E r \in Recoverers : RecEnqueue(r)
    \/ \E r \in Recoverers : RecFinish(r)

SpecSched == Init /\ [][NextSched]_vars

-----------------------------------------------------------------------------
(* The queue: at-least-once delivery with a visibility timeout and a         *)
(* redrive policy                                                            *)

maxReceiveCount == 3

Visible(m) ==
    /\ m \in 1..Len(queue)
    /\ queue[m].st = "visible"
    /\ queue[m].receiveCount < maxReceiveCount

\* The visibility timeout of an in-flight message passes.
Expire(m) ==
    /\ m \in 1..Len(queue)
    /\ queue[m].st = "inflight"
    /\ queue' = [queue EXCEPT ![m].st = "visible"]
    /\ UNCHANGED <<now, events, rows, schedVars, recVars, runVars, workerVars>>

\* A redrive policy that hands the message back to the source queue as new.
Requeued(msg) == [msg EXCEPT !.receiveCount = 0]

\* RedrivePolicy.deadLetterTargetArn: where the policy sends the message.
Redriven(msg) == [msg EXCEPT !.st = "dlq"]

\* The redrive policy: a message received maxReceiveCount times and still
\* in the queue goes to the dead-letter queue.
Redrive(m) ==
    /\ m \in 1..Len(queue)
    /\ queue[m].st = "visible"
    /\ queue[m].receiveCount >= maxReceiveCount
    /\ queue' = [queue EXCEPT ![m] = Redriven(@)]
    /\ UNCHANGED <<now, events, rows, schedVars, recVars, runVars, workerVars>>

\* A deleteMessage that answers and deletes nothing.
KeepMessage(q, m, deleteOk) == q

\* SqsService.deleteMessage(receiptHandle): when the call succeeds the
\* message leaves the queue; when it throws the queue is as before.
DeleteMessage(q, m, deleteOk) ==
    IF deleteOk /\ q[m].st \in {"visible", "inflight"}
    THEN [q EXCEPT ![m].st = "deleted"]
    ELSE q

-----------------------------------------------------------------------------
(* Job registry *)

\* JobRegistry.register(type, processor): throws, and changes nothing, when
\* the type is registered already.
RegisterThrows(registered, type) == type \in DOMAIN registered

\* processors.set(type, processor)
MapSet(registered, type, processor) ==
    [t \in DOMAIN registered \cup {type} |->
        IF t = type THEN processor ELSE registered[t]]

\* A register that sets the processor whether or not the type has one.
registerOverwrites(registered, type, processor) ==
    MapSet(registered, type, processor)

register(registered, type, processor) ==
    IF RegisterThrows(registered, type) THEN registered
    ELSE MapSet(registered, type, processor)

\* A lookup that answers with one registered processor whatever the type.
SomeProcessor(type) ==
    IF DOMAIN processors = {} THEN "undefined"
    ELSE processors[CHOOSE t \in DOMAIN processors : TRUE]

\* JobRegistry.getProcessor(type)
getProcessor(type) ==
    IF type \in DOMAIN processors THEN processors[type] ELSE "undefined"

\* JobRegistry.getRegisteredCount()
getRegisteredCount == Cardinality(DOMAIN processors)

\* A register call as the caller saw it.
RegisterCall(type, processor, threw) ==
    [type |-> type, processor |-> processor, threw |-> threw]

\* A registry that answers yes for every type.
AnyProcessor(type) == TRUE

\* JobRegistry.hasProcessor(type)
hasProcessor(type) == type \in DOMAIN processors

\* EventsModule.onModuleInit: both processors are registered.
RegisterProcessors ==
    /\ DOMAIN processors = {}
    /\ processors' =
          register(register(processors, "BIRTHDAY_NOTIFICATION",
                            "birthdayProcessor"),
                   "ANNIVERSARY_NOTIFICATION", "anniversaryProcessor")
    /\ lastRegister' = RegisterCall("ANNIVERSARY_NOTIFICATION",
                                    "anniversaryProcessor", FALSE)
    /\ UNCHANGED <<now, events, rows, queue, schedVars, recVars, runVars, worker,
                   deliveries, metrics, invoked, deleteCalls, loop,
                   lifeVars, sinkVars, initialized,
                   legacyVars,
                   historyVars>>

\* JobRegistry.onModuleInit, lines 46-52.
RegistryInit ==
    /\ ~initialized
    /\ initialized' = TRUE
    /\ UNCHANGED <<now, events, rows, queue, schedVars, recVars, runVars,
                   processors, worker, deliveries, metrics, invoked,
                   deleteCalls, loop, lifeVars, sinkVars, lastRegister,
                   legacyVars,
                   historyVars>>

\* Some module calls JobRegistry.register(type, processor), at start-up or
\* later: the method is public and does not look at `initialized`.
Register(type, processor) ==
    /\ processors' = register(processors, type, processor)
    /\ lastRegister' =
          RegisterCall(type, processor, RegisterThrows(processors, type))
    /\ UNCHANGED <<now, events, rows, queue, schedVars, recVars, runVars,
                   worker, deliveries, metrics, invoked, deleteCalls, loop,
                   lifeVars, sinkVars, initialized,
                   legacyVars,
                   historyVars>>

-----------------------------------------------------------------------------
(* Job worker: JobWorkerService *)

concurrency == 2

\* parseEnvelope(body): FALSE stands for null (JSON.parse threw, or the text
\* is the JSON null).
parseEnvelope(body) == body.json = "object"

\* validateEnvelope(envelope): the error, "" for none.
validateEnvelope(body) ==
    LET has(f) == f \in body.fields
        e == body.value
    IN  IF ~has("type") \/ e.type = "" THEN "MissingType"
        ELSE IF ~has("version") \/ e.version = 0 THEN "MissingVersion"
        ELSE IF ~has("idempotencyKey") \/ e.idempotencyKey = ""
             THEN "MissingIdempotencyKey"
        ELSE IF ~has("payload") THEN "MissingPayload"
        ELSE IF e.type \notin JobTypes THEN "InvalidJobType"
        ELSE ""

\* A worker that validates nothing.
NoValidation(body) == ""

\* The validation failure of a body, "" when it passes.
ValidationFailure(body) ==
    IF ~parseEnvelope(body) THEN "InvalidJSON" ELSE validateEnvelope(body)

\* One processing attempt (processMessage) of a message a worker holds:
\* where it stands, the row process() read and the retryCount it read with
\* it, whether the send delivered, how the attempt ended (invalid,
\* unregistered, or process() settling as success, failure or rejected) and
\* how the attempt's deleteMessage call went (no, ok, threw).
Held(pc, rowId, retryCount, delivered, result, deleted) ==
    [pc |-> pc, rowId |-> rowId, retryCount |-> retryCount,
     delivered |-> delivered, result |-> result, deleted |-> deleted]

Received == Held("received", 0, 0, FALSE, "none", "no")

Delivered(i) == IF i \in DOMAIN deliveries THEN deliveries[i] ELSE 0

\* deleteMessage as the attempt saw it.
DeleteAnswer(deleteOk) == IF deleteOk THEN "ok" ELSE "threw"

\* handleSuccess, handleValidationFailure and handleUnregisteredType await
\* the metric call before the delete (lines 654-657, 701-704, 725-729): were
\* the metric call to throw, the delete would not be called and the catch of
\* processMessage would end the attempt.
DeleteCalled(threw) == ~threw

\* worker.pollInterval, in milliseconds.
pollInterval == 5000

\* pollAndProcessBatch, lines 477-521: whatever is thrown inside its try, the
\* failure of receiveMessages included, is caught and logged by its own
\* catch; nothing is thrown to startPolling.
pollAndProcessBatchThrows(receiveOk) == FALSE

\* startPolling, lines 450-466: the sleep after one pollAndProcessBatch;
\* the doubled interval belongs to the catch of the loop.
SleepAfter(threw) == IF threw THEN pollInterval * 2 ELSE pollInterval

\* A batch that ends with the first processMessage that did not succeed.
FirstFailureSettles(w) ==
    \E m \in DOMAIN worker[w] :
        /\ worker[w][m].pc = "done"
        /\ worker[w][m].result # "success"

\* Promise.allSettled, lines 495-497: every processMessage of the batch has
\* settled, fulfilled or rejected.
Settled(w) == \A m \in DOMAIN worker[w] : worker[w][m].pc = "done"

\* A receive that returns one message more than was asked for.
OneMoreMessage(maxMessages) == maxMessages + 1

\* SqsService.receiveMessages, line 174: Math.min(maxMessages, 10).
MaxNumberOfMessages(maxMessages) ==
    IF maxMessages < 10 THEN maxMessages ELSE 10

\* A loop that looks at no shutdown flag.
IgnoresShutdown(w) == isRunning[w]

\* startPolling, lines 448-450: the loop starts another pollAndProcessBatch
\* while it runs and no shutdown was requested.
MayPoll(w) == isRunning[w] /\ ~shutdownRequested[w]

\* startPolling, lines 454-457: the sleep between batches is skipped once a
\* shutdown was requested.
Slept(w, threw) ==
    IF ~threw /\ shutdownRequested[w] THEN 0 ELSE SleepAfter(threw)

\* pollAndProcessBatch, lines 474-497: receiveMessages returns up to
\* min(concurrency, 10) visible messages, now in flight, and processMessage
\* starts for each of them.
Poll(w) ==
    /\ MayPoll(w)
    /\ DOMAIN worker[w] = {}
    /\ \E batch \in SUBSET {m \in 1..Len(queue) : Visible(m)} :
        /\ batch # {}
        /\ Cardinality(batch) <= MaxNumberOfMessages(concurrency)
        /\ queue' = [m \in 1..Len(queue) |->
                IF m \in batch
                THEN [queue[m] EXCEPT !.st = "inflight", !.receiveCount = @ + 1]
                ELSE queue[m]]
        /\ worker' = [worker EXCEPT ![w] = [m \in batch |-> Received]]
    /\ loop' = [loop EXCEPT ![w] = LoopIdle]
    /\ batchCounts' = [batchCounts EXCEPT ![w] = NoCounts]
    /\ UNCHANGED <<now, events, rows, schedVars, recVars, runVars, processors,
                   deliveries, metrics, invoked, deleteCalls, lifeVars, sinkVars,
                   registryVars, legacyVars,
                   failedAttempts>>

\* pollAndProcessBatch, lines 485-488, and startPolling: receiveMessages
\* returns no message, the loop sleeps and polls again.
PollEmpty(w) ==
    /\ MayPoll(w)
    /\ DOMAIN worker[w] = {}
    /\ \A m \in 1..Len(queue) : ~Visible(m)
    /\ loop' = [loop EXCEPT ![w] =
            Loop("empty", SleepAfter(pollAndProcessBatchThrows(TRUE)))]
    /\ batchCounts' = [batchCounts EXCEPT ![w] = NoCounts]
    /\ UNCHANGED <<now, events, rows, queue, schedVars, recVars, runVars,
                   processors, worker, deliveries, metrics, invoked,
                   deleteCalls, lifeVars, sinkVars,
                   registryVars, legacyVars,
                   failedAttempts>>

\* pollAndProcessBatch, lines 479-483 and 517-521, and startPolling:
\* receiveMessages throws (sqs.service.ts lines 183-188 rethrow), no message
\* is received, the loop sleeps and polls again.
PollFails(w) ==
    /\ MayPoll(w)
    /\ DOMAIN worker[w] = {}
    /\ loop' = [loop EXCEPT ![w] =
            Loop("error", SleepAfter(pollAndProcessBatchThrows(FALSE)))]
    /\ batchCounts' = [batchCounts EXCEPT ![w] = NoCounts]
    /\ UNCHANGED <<now, events, rows, queue, schedVars, recVars, runVars,
                   processors, worker, deliveries, metrics, invoked,
                   deleteCalls, lifeVars, sinkVars,
                   registryVars, legacyVars,
                   failedAttempts>>

\* processMessage, lines 534-557, with handleValidationFailure: the metric,
\* then the delete; a delete that throws is swallowed by the catch of
\* processMessage.
RejectInvalid(w, m) ==
    /\ m \in DOMAIN worker[w]
    /\ worker[w][m].pc = "received"
    /\ ValidationFailure(queue[m].body) # ""
    /\ metrics' = metrics \cup {<<"JobValidationFailure", m>>}
    /\ IF DeleteCalled(recordMetricThrows(sinkUp))
       THEN /\ deleteCalls' = deleteCalls \cup {m}
            /\ \E deleteOk \in BOOLEAN :
                /\ queue' = DeleteMessage(queue, m, deleteOk)
                /\ worker' = [worker EXCEPT ![w][m].pc = "done",
                                            ![w][m].result = "invalid",
                                            ![w][m].deleted = DeleteAnswer(deleteOk)]
       ELSE /\ worker' = [worker EXCEPT ![w][m].pc = "done",
                                        ![w][m].result = "invalid"]
            /\ UNCHANGED <<queue, deleteCalls>>
    /\ UNCHANGED <<now, events, rows, schedVars, recVars, runVars, processors,
                   deliveries, invoked, loop,
                   lifeVars, sinkVars,
                   registryVars, legacyVars,
                   historyVars>>

\* processMessage, lines 559-567, with handleUnregisteredType.
RejectUnregistered(w, m) ==
    /\ m \in DOMAIN worker[w]
    /\ worker[w][m].pc = "received"
    /\ ValidationFailure(queue[m].body) = ""
    /\ ~hasProcessor(queue[m].body.value.type)
    /\ metrics' = metrics \cup {<<"JobTypeUnregistered", m>>}
    /\ IF DeleteCalled(recordMetricThrows(sinkUp))
       THEN /\ deleteCalls' = deleteCalls \cup {m}
            /\ \E deleteOk \in BOOLEAN :
                /\ queue' = DeleteMessage(queue, m, deleteOk)
                /\ worker' = [worker EXCEPT ![w][m].pc = "done",
                                            ![w][m].result = "unregistered",
                                            ![w][m].deleted = DeleteAnswer(deleteOk)]
       ELSE /\ worker' = [worker EXCEPT ![w][m].pc = "done",
                                        ![w][m].result = "unregistered"]
            /\ UNCHANGED <<queue, deleteCalls>>
    /\ UNCHANGED <<now, events, rows, schedVars, recVars, runVars, processors,
                   deliveries, invoked, loop,
                   lifeVars, sinkVars,
                   registryVars, legacyVars,
                   historyVars>>

\* The catch block of process() (lines 167-183 and 335-351) reads
\* payload.eventId: with a null payload it throws in its turn.
CatchThrows(payload) == payload.isNull

\* What the first part of process() (lines 28-92 and 214-266) ends in:
\* "found" when the row (and the user and the event) were read; "failure" for
\* a ProcessorResult with success false (no row, or an error that the catch
\* block turned into a result); "rejected" when the catch block itself threw.
ProcessLookup(payload, storeOk, rs) ==
    IF payload.isNull \/ payload.lacksFields \/ ~storeOk
    THEN (IF CatchThrows(payload) THEN "rejected" ELSE "failure")
    ELSE IF findFirst(rs, payload.eventId, payload.scheduledFor) = 0
    THEN "failure"
    ELSE "found"

\* A worker that acknowledges whatever the result.
AlwaysAck(result) == "ack"

\* processMessage, lines 575-588: success goes to handleSuccess; a failure
\* goes to handleProcessorFailure and a rejection to the catch, and neither
\* deletes.
AfterProcess(result) == IF result = "success" THEN "ack" ELSE "done"

\* handleProcessorFailure records the failure metric.
FailureMetric(ms, m, result) ==
    IF result = "failure" THEN ms \cup {<<"JobProcessingFailure", m>>} ELSE ms

\* processMessage, lines 569-571: the processor is called; process() reads
\* the row.
Dispatch(w, m) ==
    LET payload == queue[m].body.value.payload
    IN  /\ m \in DOMAIN worker[w]
        /\ worker[w][m].pc = "received"
        /\ ValidationFailure(queue[m].body) = ""
        /\ hasProcessor(queue[m].body.value.type)
        /\ invoked' = invoked \cup {m}
        /\ \E storeOk \in BOOLEAN :
            LET outcome == ProcessLookup(payload, storeOk, rows)
                rowId == findFirst(rows, payload.eventId, payload.scheduledFor)
            IN  /\ worker' = [worker EXCEPT ![w][m] =
                        IF outcome = "found"
                        THEN Held("send", rowId, rows[rowId].retryCount, FALSE,
                                  "none", "no")
                        ELSE Held(AfterProcess(outcome), 0, 0, FALSE, outcome, "no")]
                /\ metrics' = FailureMetric(metrics, m, outcome)
        /\ UNCHANGED <<now, events, rows, queue, schedVars, recVars, runVars,
                       processors, deliveries, deleteCalls, loop,
                       lifeVars, sinkVars,
                       registryVars, legacyVars,
                   historyVars>>

\* NotificationService.send: the notification leaves the system or not; send
\* itself never throws.
Send(w, m) ==
    /\ m \in DOMAIN worker[w]
    /\ worker[w][m].pc = "send"
    /\ \E delivered \in BOOLEAN :
        /\ worker' = [worker EXCEPT ![w][m].pc = "update",
                                    ![w][m].delivered = delivered]
        /\ deliveries' =
                IF delivered
                THEN [i \in DOMAIN deliveries \cup {worker[w][m].rowId} |->
                        Delivered(i) + (IF i = worker[w][m].rowId THEN 1 ELSE 0)]
                ELSE deliveries
    /\ UNCHANGED <<now, events, rows, queue, schedVars, recVars, runVars,
                   processors, metrics, invoked, deleteCalls, loop,
                   lifeVars, sinkVars,
                   registryVars, legacyVars,
                   historyVars>>

\* The attempts so far that ended with a failed send and the FAILED update
\* of the row written.
FailedAttempts(i) ==
    IF i \in DOMAIN failedAttempts THEN failedAttempts[i] ELSE 0

\* The row process() writes after the send (lines 103-123 and 277-297).
UpdatedRow(row, delivered, retryCount) ==
    IF delivered THEN [row EXCEPT !.status = "SENT"]
    ELSE [row EXCEPT !.status = "FAILED", !.retryCount = retryCount + 1]

\* How process() settles after the send and the update.
ProcessResult(delivered, storeOk) ==
    IF delivered /\ storeOk THEN "success" ELSE "failure"

\* process(), lines 103-183: the status update and the result; an update
\* that throws is caught and becomes a result with success false.
Update(w, m) ==
    LET h == worker[w][m]
    IN  /\ m \in DOMAIN worker[w]
        /\ h.pc = "update"
        /\ \E storeOk \in BOOLEAN :
            LET result == ProcessResult(h.delivered, storeOk)
            IN  /\ rows' = IF storeOk
                           THEN [rows EXCEPT ![h.rowId] =
                                    UpdatedRow(@, h.delivered, h.retryCount)]
                           ELSE rows
                /\ worker' = [worker EXCEPT ![w][m].pc = AfterProcess(result),
                                            ![w][m].result = result]
                /\ metrics' = FailureMetric(metrics, m, result)
                /\ failedAttempts' =
                        IF storeOk /\ ~h.delivered
                        THEN [i \in DOMAIN failedAttempts \cup {h.rowId} |->
                                FailedAttempts(i)
                                   + (IF i = h.rowId THEN 1 ELSE 0)]
                        ELSE failedAttempts
        /\ UNCHANGED <<now, events, queue, schedVars, recVars, runVars,
                       processors, deliveries, invoked, deleteCalls, loop,
                       lifeVars, sinkVars,
                       registryVars, legacyVars, batchCounts>>

\* handleSuccess, lines 638-658: the success metric, then the delete.
Ack(w, m) ==
    /\ m \in DOMAIN worker[w]
    /\ worker[w][m].pc = "ack"
    /\ metrics' = metrics \cup {<<"JobProcessingSuccess", m>>}
    /\ IF DeleteCalled(recordMetricThrows(sinkUp))
       THEN /\ deleteCalls' = deleteCalls \cup {m}
            /\ \E deleteOk \in BOOLEAN :
                /\ queue' = DeleteMessage(queue, m, deleteOk)
                /\ worker' = [worker EXCEPT ![w][m].pc = "done",
                                            ![w][m].deleted = DeleteAnswer(deleteOk)]
       ELSE /\ worker' = [worker EXCEPT ![w][m].pc = "done"]
            /\ UNCHANGED <<queue, deleteCalls>>
    /\ UNCHANGED <<now, events, rows, schedVars, recVars, runVars, processors,
                   deliveries, invoked, loop,
                   lifeVars, sinkVars,
                   registryVars, legacyVars,
                   historyVars>>

\* processMessage, lines 529-588: all of its body is inside the try and the
\* catch logs and returns, so its promise is fulfilled whatever happened to
\* the message.
processMessageRejects(held) == FALSE

\* Lines 499-508: received, succeeded (results 'fulfilled') and failed
\* (results 'rejected'), as handed to recordWorkerBatch.
BatchCounts(w) ==
    LET received == Cardinality(DOMAIN worker[w])
        failed == Cardinality({m \in DOMAIN worker[w] :
                                 processMessageRejects(worker[w][m])})
    IN  <<received, received - failed, failed>>

\* pollAndProcessBatch, lines 495-516, and startPolling: every
\* processMessage has settled, the counts are recorded, the batch is over
\* and the loop sleeps.
BatchDone(w) ==
    /\ DOMAIN worker[w] # {}
    /\ Settled(w)
    /\ worker' = [worker EXCEPT ![w] = <<>>]
    /\ loop' = [loop EXCEPT ![w] =
            Loop("batch", Slept(w, pollAndProcessBatchThrows(TRUE)))]
    /\ batchCounts' = [batchCounts EXCEPT ![w] = BatchCounts(w)]
    /\ UNCHANGED <<now, events, rows, queue, schedVars, recVars, runVars,
                   processors, deliveries, metrics, invoked, deleteCalls,
                   lifeVars, sinkVars,
                   registryVars, legacyVars,
                   failedAttempts>>

\* onModuleDestroy, lines 426-441: the termination signal sets the flag of a
\* running worker; the wait that follows (the end of the loop or ten
\* seconds, whichever comes first) writes nothing.
onModuleDestroy(w) ==
    /\ isRunning[w]
    /\ ~shutdownRequested[w]
    /\ shutdownRequested' = [shutdownRequested EXCEPT ![w] = TRUE]
    /\ UNCHANGED <<now, events, rows, queue, schedVars, recVars, runVars,
                   processors, worker, deliveries, metrics, invoked,
                   deleteCalls, loop, isRunning,
                   sinkVars,
                   registryVars, legacyVars,
                   historyVars>>

\* startPolling, lines 450 and 468: between two batches the loop finds the
\* flag set and ends.
StopPolling(w) ==
    /\ isRunning[w]
    /\ shutdownRequested[w]
    /\ DOMAIN worker[w] = {}
    /\ isRunning' = [isRunning EXCEPT ![w] = FALSE]
    /\ UNCHANGED <<now, events, rows, queue, schedVars, recVars, runVars,
                   processors, worker, deliveries, metrics, invoked,
                   deleteCalls, loop, shutdownRequested,
                   sinkVars,
                   registryVars, legacyVars,
                   historyVars>>

-----------------------------------------------------------------------------
(* The worker against a queue that holds the envelope of one scheduled       *)
(* occurrence and one message of any other producer                          *)

FirstEvent == EventTable("ANNIVERSARY")[1]

FirstOccurrence ==
    nextOccurrence(FirstEvent, StartInstant, FirstEvent.timezone, "USE_FEB_28")

\* The envelope the scheduler enqueues for the first event at StartInstant.
FirstEnvelope ==
    Envelope(FirstEvent, FirstOccurrence, getYear(FirstOccurrence),
             generateIdempotencyKey(FirstEvent.id, getYear(FirstOccurrence)))

Body(json, fields, envelope) ==
    [json |-> json, fields |-> fields, value |-> envelope]

AllFields == {"type", "version", "idempotencyKey", "payload"}

\* Bodies of messages that did not come from the scheduler.
ForeignBodies ==
    { Body("invalid", {}, FirstEnvelope),
      Body("null", {}, FirstEnvelope),
      Body("object", AllFields \ {"type"}, FirstEnvelope),
      Body("object", AllFields, [FirstEnvelope EXCEPT !.version = 0]),
      Body("object", AllFields \ {"idempotencyKey"}, FirstEnvelope),
      Body("object", AllFields \ {"payload"}, FirstEnvelope),
      Body("object", AllFields, [FirstEnvelope EXCEPT !.type = "SUBSCRIPTION_RENEWAL"]),
      Body("object", AllFields, [FirstEnvelope EXCEPT !.payload.isNull = TRUE]),
      Body("object", AllFields, [FirstEnvelope EXCEPT !.payload.lacksFields = TRUE]),
      Body("object", AllFields,
           [FirstEnvelope EXCEPT !.type = "ANNIVERSARY_NOTIFICATION",
                                 !.payload.scheduledFor = 0]) }

InitWorker ==
    /\ now = StartInstant
    /\ events = SubSeq(EventTable("ANNIVERSARY"), 1, 1)
    /\ rows = <<NewRow(<<>>, FirstEvent.id, FirstOccurrence)>>
    /\ \E body \in ForeignBodies :
         queue = Append(SendMessage(<<>>, FirstEnvelope),
                        [body |-> body, receiveCount |-> 0, st |-> "visible"])
    /\ sched = [r \in Schedulers |-> SchedIdle]
    /\ rec = [r \in Recoverers |-> RecIdle]
    /\ runs = [sched |-> 0, rec |-> 0]
    /\ processors = <<>>
    /\ worker = [w \in Workers |-> <<>>]
    /\ deliveries = <<>>
    /\ metrics = {}
    /\ invoked = {}
    /\ deleteCalls = {}
    /\ loop = [w \in Workers |-> LoopIdle]
    /\ shutdownRequested = [w \in Workers |-> FALSE]
    /\ isRunning = [w \in Workers |-> TRUE]
    /\ sinkUp = TRUE
    /\ initialized = FALSE
    /\ lastRegister = NoRegister
    /\ LegacyOff
    /\ failedAttempts = <<>>
    /\ batchCounts = [w \in Workers |-> NoCounts]

NextWorker ==
    \/ RegisterProcessors
    \/ \E m \in 1..Len(queue) : Expire(m)
    \/ \E m \in 1..Len(queue) : Redrive(m)
    \/ \E w \in Workers : Poll(w)
    \/ \E w \in Workers : PollEmpty(w)
    \/ \E w \in Workers : PollFails(w)
    \/ \E w \in Workers, m \in 1..Len(queue) : RejectInvalid(w, m)
    \/ \E w \in Workers, m \in 1..Len(queue) : RejectUnregistered(w, m)
    \/ \E w \in Workers, m \in 1..Len(queue) : Dispatch(w, m)
    \/ \E w \in Workers, m \in 1..Len(queue) : Send(w, m)
    \/ \E w \in Workers, m \in 1..Len(queue) : Update(w, m)
    \/ \E w \in Workers, m \in 1..Len(queue) : Ack(w, m)
    \/ \E w \in Workers : BatchDone(w)

SpecWorker == InitWorker /\ [][NextWorker]_vars

-----------------------------------------------------------------------------
(* Properties of scheduling and recovery *)

\* The rows stored for one occurrence of one event.
RowsFor(eventId, scheduledFor) ==
    {i \in 1..Len(rows) :
        rows[i].eventId = eventId /\ rows[i].scheduledFor = scheduledFor}

\* The envelopes ever enqueued for one occurrence of one event.
MessagesFor(eventId, scheduledFor) ==
    {m \in 1..Len(queue) :
        /\ queue[m].body.value.payload.eventId = eventId
        /\ queue[m].body.value.payload.scheduledFor = scheduledFor}

\* The scheduler runs that stand between their insert and their sendMessage
\* for one occurrence.
SchedEnqueuing(eventId, scheduledFor) ==
    {r \in Schedulers :
        /\ sched[r].pc = "enqueue"
        /\ sched[r].event = eventId
        /\ sched[r].occ = scheduledFor}

RecEnqueuing(eventId, scheduledFor) ==
    {r \in Recoverers :
        /\ rec[r].pc = "enqueue"
        /\ Head(rec[r].todo) = eventId
        /\ rec[r].occ = scheduledFor}

\* C1: under any interleaving of scheduler and recovery replicas, no two
\* notification rows have the same (eventId, scheduledFor) pair.
C1_UniqueRows ==
    \A i, j \in 1..Len(rows) :
        (rows[i].eventId = rows[j].eventId
            /\ rows[i].scheduledFor = rows[j].scheduledFor) => i = j

\* A scheduler run and a recovery run have both had their insert refused for
\* a row that another run had stored.
C1_Witness ==
    /\ Len(rows) >= 1
    /\ \E r \in Schedulers : sched[r].outcome = "duplicate"
    /\ \E r \in Recoverers : rec[r].skipped > 0

\* C2: a scheduler run whose insert meets the row of an earlier run leaves
\* the rows and the queue as they are (one row, at most one envelope for the
\* occurrence), and ends the event as already scheduled, its count of
\* scheduled events unchanged: the only error it can end with is a store
\* that did not answer.
C2_SecondRunIdempotent ==
    [][\A r \in Schedulers :
        (/\ sched[r].pc = "insert"
         /\ sched'[r] # sched[r]
         /\ UniqueViolation(rows, sched[r].event, sched[r].occ))
        => /\ sched'[r].outcome \in {"duplicate", "error: store"}
           /\ sched'[r].pc = "compute"
           /\ sched'[r].scheduled = sched[r].scheduled
           /\ rows' = rows
           /\ queue' = queue
           /\ Cardinality(RowsFor(sched[r].event, sched[r].occ)) = 1
           /\ Cardinality(MessagesFor(sched[r].event, sched[r].occ)) <= 1]_vars

\* One replica has run the scheduler twice, one run after the other, with
\* nothing else running: the second run ended the event as a duplicate, and
\* there is one row and one envelope.
C2_Witness ==
    /\ now = StartInstant
    /\ runs.sched = 2
    /\ sched["s2"] = SchedIdle
    /\ rec["r1"] = RecIdle
    /\ sched["s1"].outcome = "duplicate"
    /\ Len(rows) = 1
    /\ Len(queue) = 1

\* C3: when scheduler runs overlap on an occurrence there is one row for it,
\* and the envelopes enqueued for it plus the runs about to enqueue for it
\* never exceed that one: only the run whose insert stored the row enqueues,
\* and a run that ended the event as scheduled or duplicate left the row.
C3_OnlyInserterEnqueues ==
    /\ \A r \in Schedulers :
        sched[r].outcome \in {"scheduled", "duplicate"}
            => Cardinality(RowsFor(sched[r].event, sched[r].occ)) = 1
    /\ \A r \in Schedulers :
        sched[r].pc = "enqueue"
            => /\ Cardinality(RowsFor(sched[r].event, sched[r].occ)) = 1
               /\ Cardinality(MessagesFor(sched[r].event, sched[r].occ))
                    + Cardinality(SchedEnqueuing(sched[r].event, sched[r].occ))
                    + Cardinality(RecEnqueuing(sched[r].event, sched[r].occ)) = 1
    /\ \A i \in 1..Len(rows) :
        Cardinality(MessagesFor(rows[i].eventId, rows[i].scheduledFor))
            + Cardinality(SchedEnqueuing(rows[i].eventId, rows[i].scheduledFor))
            + Cardinality(RecEnqueuing(rows[i].eventId, rows[i].scheduledFor)) <= 1

\* Two scheduler runs overlap: the second met the row of the first while the
\* first had not yet enqueued.
C3_Witness ==
    /\ now = StartInstant
    /\ runs.sched = 2
    /\ rec["r1"] = RecIdle
    /\ sched["s1"].pc = "enqueue"
    /\ sched["s2"].pc = "compute"
    /\ sched["s2"].outcome = "duplicate"
    /\ sched["s2"].occ = sched["s1"].occ
    /\ Len(queue) = 0

-----------------------------------------------------------------------------
(* Properties of the worker *)

\* A body that is no JSON object, lacks one of the four fields, or carries a
\* type outside the JobType enum.
Malformed(body) ==
    \/ body.json # "object"
    \/ body.fields # AllFields
    \/ body.value.version = 0
    \/ body.value.type \notin {"BIRTHDAY_NOTIFICATION", "ANNIVERSARY_NOTIFICATION"}

Gone(m) == queue[m].st \in {"deleted", "dlq"}

\* C4: an attempt whose handler returned success false, or raised, makes no
\* deleteMessage call: the message stays in the queue for redelivery.
C4_FailureNeverDeleted ==
    \A w \in Workers : \A m \in DOMAIN worker[w] :
        worker[w][m].result \in {"failure", "rejected"}
            => /\ worker[w][m].pc = "done"
               /\ worker[w][m].deleted = "no"

\* The handler returned success false for a message the worker holds, and
\* the message is still in flight.
C4_Witness ==
    \E w \in Workers : \E m \in DOMAIN worker[w] :
        /\ worker[w][m].result = "failure"
        /\ m \in invoked
        /\ queue[m].st = "inflight"
        /\ <<"JobProcessingFailure", m>> \in metrics

\* C5, as stated: once the handler has returned success and the attempt is
\* over, the message is gone from the queue and the success metric is
\* recorded.
C5_SuccessDeleted ==
    \A w \in Workers : \A m \in DOMAIN worker[w] :
        (worker[w][m].result = "success" /\ worker[w][m].pc = "done")
            => /\ <<"JobProcessingSuccess", m>> \in metrics
               /\ Gone(m)

\* C5, amended: once the handler has returned success and the attempt is
\* over, the success metric is recorded and deleteMessage was called; when
\* that call succeeded the message is gone from the queue.
C5_SuccessDeleteCalled ==
    \A w \in Workers : \A m \in DOMAIN worker[w] :
        (worker[w][m].result = "success" /\ worker[w][m].pc = "done")
            => /\ <<"JobProcessingSuccess", m>> \in metrics
               /\ worker[w][m].deleted # "no"
               /\ (worker[w][m].deleted = "ok" => Gone(m))

\* The handler returned success, the delete went through and the message is
\* deleted.
C5_Witness ==
    \E w \in Workers : \E m \in DOMAIN worker[w] :
        /\ worker[w][m].result = "success"
        /\ worker[w][m].deleted = "ok"
        /\ queue[m].st = "deleted"
        /\ <<"JobProcessingSuccess", m>> \in metrics

\* C6, as stated: a malformed message never reaches a handler, and once the
\* worker is done with it the validation-failure metric is recorded and the
\* message is gone from the queue.
C6_InvalidDeleted ==
    \A m \in 1..Len(queue) :
        Malformed(queue[m].body)
            => /\ m \notin invoked
               /\ \A w \in Workers :
                    (m \in DOMAIN worker[w] /\ worker[w][m].pc # "received")
                        => /\ worker[w][m].result = "invalid"
                           /\ <<"JobValidationFailure", m>> \in metrics
                           /\ Gone(m)

\* C6, amended: a malformed message never reaches a handler, and once the
\* worker is done with it the validation-failure metric is recorded and
\* deleteMessage was called; when that call succeeded the message is gone.
C6_InvalidDeleteCalled ==
    \A m \in 1..Len(queue) :
        Malformed(queue[m].body)
            => /\ m \notin invoked
               /\ \A w \in Workers :
                    (m \in DOMAIN worker[w] /\ worker[w][m].pc # "received")
                        => /\ worker[w][m].pc = "done"
                           /\ worker[w][m].result = "invalid"
                           /\ <<"JobValidationFailure", m>> \in metrics
                           /\ worker[w][m].deleted # "no"
                           /\ (worker[w][m].deleted = "ok" => Gone(m))

\* A malformed message was rejected and deleted without a handler call.
C6_Witness ==
    \E w \in Workers : \E m \in DOMAIN worker[w] :
        /\ Malformed(queue[m].body)
        /\ worker[w][m].result = "invalid"
        /\ worker[w][m].deleted = "ok"
        /\ queue[m].st = "deleted"
        /\ m \notin invoked

\* The worker takes up a well-formed message whose type has no processor.
UnregisteredStep(w, m) ==
    /\ m \in DOMAIN worker[w]
    /\ worker[w][m].pc = "received"
    /\ ~Malformed(queue[m].body)
    /\ queue[m].body.value.type \notin DOMAIN processors
    /\ m \in DOMAIN worker'[w]
    /\ worker'[w][m] # worker[w][m]

\* C7, as stated: the step that handles a well-formed message of an
\* unregistered type records the unregistered-type metric, invokes no
\* handler and leaves the message gone from the queue; a deleted message
\* stays deleted.
C7_UnregisteredDeleted ==
    [][\A w \in Workers : \A m \in 1..Len(queue) :
        /\ UnregisteredStep(w, m)
            => /\ worker'[w][m].result = "unregistered"
               /\ <<"JobTypeUnregistered", m>> \in metrics'
               /\ invoked' = invoked
               /\ queue'[m].st \in {"deleted", "dlq"}
        /\ queue[m].st = "deleted" => queue'[m].st = "deleted"]_vars

\* C7, amended: the step that handles a well-formed message of an
\* unregistered type records the unregistered-type metric, invokes no
\* handler and calls deleteMessage; when that call succeeded the message is
\* gone from the queue, and a deleted message stays deleted and is never
\* received again.
C7_UnregisteredDeleteCalled ==
    [][\A w \in Workers : \A m \in 1..Len(queue) :
        /\ UnregisteredStep(w, m)
            => /\ worker'[w][m].result = "unregistered"
               /\ worker'[w][m].pc = "done"
               /\ <<"JobTypeUnregistered", m>> \in metrics'
               /\ invoked' = invoked
               /\ worker'[w][m].deleted # "no"
               /\ (worker'[w][m].deleted = "ok"
                    => queue'[m].st \in {"deleted", "dlq"})
        /\ queue[m].st = "deleted"
            => /\ queue'[m].st = "deleted"
               /\ queue'[m].receiveCount = queue[m].receiveCount]_vars

\* A well-formed message of an unregistered type was deleted without a
\* handler call.
C7_Witness ==
    \E w \in Workers : \E m \in DOMAIN worker[w] :
        /\ ~Malformed(queue[m].body)
        /\ worker[w][m].result = "unregistered"
        /\ worker[w][m].deleted = "ok"
        /\ queue[m].st = "deleted"
        /\ m \notin invoked
        /\ <<"JobTypeUnregistered", m>> \in metrics

\* C8, as stated: whatever the queue redelivers, the notification of an
\* occurrence is sent at most once.
C8_SentAtMostOnce ==
    \A i \in DOMAIN deliveries : deliveries[i] <= 1

\* C9, as stated: a row whose status is SENT, FAILED or SKIPPED keeps that
\* status in every step.
C9_TerminalStatus ==
    [][\A i \in 1..Len(rows) :
        rows[i].status \in {"SENT", "FAILED", "SKIPPED"}
            => rows'[i].status = rows[i].status]_vars

\* C10, as stated: process() never rejects; every handler call settles as a
\* ProcessorResult.
C10_HandlerNeverThrows ==
    \A w \in Workers : \A m \in DOMAIN worker[w] :
        worker[w][m].result # "rejected"

-----------------------------------------------------------------------------
(* The worker against one message, with the scheduling the polling loop and  *)
(* the queue's timers give: every enabled step is eventually taken           *)

\* The bodies a single message may carry: the scheduler's envelope or one of
\* another producer.
RetryBodies == ForeignBodies \cup {Stringify(FirstEnvelope)}

InitRetry ==
    /\ now = StartInstant
    /\ events = SubSeq(EventTable("ANNIVERSARY"), 1, 1)
    /\ rows = <<NewRow(<<>>, FirstEvent.id, FirstOccurrence)>>
    /\ \E body \in RetryBodies :
         queue = <<[body |-> body, receiveCount |-> 0, st |-> "visible"]>>
    /\ sched = [r \in Schedulers |-> SchedIdle]
    /\ rec = [r \in Recoverers |-> RecIdle]
    /\ runs = [sched |-> 0, rec |-> 0]
    /\ processors = <<>>
    /\ worker = [w \in Workers |-> <<>>]
    /\ deliveries = <<>>
    /\ metrics = {}
    /\ invoked = {}
    /\ deleteCalls = {}
    /\ loop = [w \in Workers |-> LoopIdle]
    /\ shutdownRequested = [w \in Workers |-> FALSE]
    /\ isRunning = [w \in Workers |-> TRUE]
    /\ sinkUp = TRUE
    /\ initialized = FALSE
    /\ lastRegister = NoRegister
    /\ LegacyOff
    /\ failedAttempts = <<>>
    /\ batchCounts = [w \in Workers |-> NoCounts]

\* startPolling keeps polling while the worker runs, every awaited call of
\* processMessage returns, and the queue's visibility timeout and redrive
\* policy act in bounded time.
FairWorker ==
    /\ WF_vars(\E m \in 1..Len(queue) : Expire(m))
    /\ WF_vars(\E m \in 1..Len(queue) : Redrive(m))
    /\ \A w \in Workers :
        /\ WF_vars(Poll(w))
        /\ WF_vars(\E m \in 1..Len(queue) : RejectInvalid(w, m))
        /\ WF_vars(\E m \in 1..Len(queue) : RejectUnregistered(w, m))
        /\ WF_vars(\E m \in 1..Len(queue) : Dispatch(w, m))
        /\ WF_vars(\E m \in 1..Len(queue) : Send(w, m))
        /\ WF_vars(\E m \in 1..Len(queue) : Update(w, m))
        /\ WF_vars(\E m \in 1..Len(queue) : Ack(w, m))
        /\ WF_vars(BatchDone(w))

SpecRetry == InitRetry /\ [][NextWorker]_vars /\ FairWorker

\* C11: no message is received more than maxReceiveCount times, a message
\* is dead-lettered only after that many receives, and every message that
\* was received is eventually deleted or dead-lettered.
C11_RetriesBounded ==
    /\ [](\A m \in 1..Len(queue) :
            /\ queue[m].receiveCount <= maxReceiveCount
            /\ queue[m].st = "dlq" => queue[m].receiveCount = maxReceiveCount)
    /\ (queue[1].receiveCount > 0) ~> (queue[1].st \in {"deleted", "dlq"})

\* The scheduler's envelope failed in the handler on every delivery, was
\* received maxReceiveCount times and is dead-lettered.
C11_Witness ==
    /\ queue[1].body = Stringify(FirstEnvelope)
    /\ queue[1].st = "dlq"
    /\ queue[1].receiveCount = maxReceiveCount
    /\ <<"JobProcessingFailure", 1>> \in metrics
    /\ <<"JobProcessingSuccess", 1>> \notin metrics
    /\ 1 \notin deleteCalls

-----------------------------------------------------------------------------
(* One recovery run at a chosen age of the first event's occurrence, the     *)
(* row of that occurrence stored or not                                      *)

\* Minutes from the occurrence to `now`: not yet due, due this instant, just
\* due, 48 hours, the grace period to the minute, 30 and 59 minutes past it,
\* an hour past it, and 300 hours.
GraceAges ==
    {-60, 0, 1, 48 * 60, GracePeriodMinutes, GracePeriodMinutes + 30,
     GracePeriodMinutes + 59, GracePeriodMinutes + 60, 300 * 60}

FirstRow == NewRow(<<>>, FirstEvent.id, FirstOccurrence)

InitGrace ==
    /\ \E age \in GraceAges : now = FirstOccurrence + age
    /\ events = SubSeq(EventTable("ANNIVERSARY"), 1, 1)
    /\ rows \in {<<>>, <<FirstRow>>}
    /\ queue = <<>>
    /\ sched = [r \in Schedulers |-> SchedIdle]
    /\ rec = [r \in Recoverers |-> RecIdle]
    /\ runs = [sched |-> 0, rec |-> 0]
    /\ processors = <<>>
    /\ worker = [w \in Workers |-> <<>>]
    /\ deliveries = <<>>
    /\ metrics = {}
    /\ invoked = {}
    /\ deleteCalls = {}
    /\ loop = [w \in Workers |-> LoopIdle]
    /\ shutdownRequested = [w \in Workers |-> FALSE]
    /\ isRunning = [w \in Workers |-> TRUE]
    /\ sinkUp = TRUE
    /\ initialized = FALSE
    /\ lastRegister = NoRegister
    /\ LegacyOff
    /\ failedAttempts = <<>>
    /\ batchCounts = [w \in Workers |-> NoCounts]

NextGrace ==
    \/ \E r \in Recoverers : RecStart(r)
    \/ \E r \in Recoverers : RecCheck(r)
    \/ \E r \in Recoverers : RecInsert(r)
    \/ \E r \in Recoverers : RecEnqueue(r)
    \/ \E r \in Recoverers : RecFinish(r)

SpecGrace == InitGrace /\ [][NextGrace]_vars

\* The age of the first event's occurrence, in minutes.
Age == now - FirstOccurrence

\* C12, as stated: an occurrence older than the grace period gets no row and
\* no envelope from the recovery run.
C12_StaleNeverRecovered ==
    Age > GracePeriodMinutes
        => /\ \A r \in Recoverers : rec[r].pc \notin {"insert", "enqueue"}
           /\ queue = <<>>
           /\ \A r \in Recoverers :
                rec[r].result # <<>> => rec[r].result[2] = 0

C16_FutureUntouched ==
    [][\A r \in Recoverers :
        (/\ rec[r].pc = "check"
         /\ rec[r].todo # <<>>
         /\ rec'[r] # rec[r]
         /\ RecOccurrence(events[EventById(Head(rec[r].todo))], Head(rec[r].years))
                >= rec[r].startedAt)
        => /\ rec'[r].outcome = "future"
           /\ rec'[r].pc = "check"
           /\ rows' = rows
           /\ queue' = queue
           /\ rec'[r].totalMissed = rec[r].totalMissed
           /\ rec'[r].recovered = rec[r].recovered
           /\ rec'[r].skipped = rec[r].skipped
           /\ rec'[r].alreadyScheduled = rec[r].alreadyScheduled]_vars

\* The scan has just passed an occurrence that falls on `now` itself, with
\* nothing stored or counted.
C16_Witness ==
    /\ Age = 0
    /\ rows = <<>>
    /\ queue = <<>>
    /\ rec["r1"].pc = "check"
    /\ rec["r1"].outcome = "future"
    /\ Len(rec["r1"].years) = 1
    /\ rec["r1"].totalMissed = 0
    /\ rec["r1"].alreadyScheduled = 0

\* The event and the occurrence a recovery run is looking at.
RecEvent(r) == events[EventById(Head(rec[r].todo))]

RecCounts(s) == <<s.totalMissed, s.recovered, s.skipped, s.alreadyScheduled>>

\* C14: the step of the scan that meets a due occurrence within the grace
\* period whose row is stored counts it as alreadyScheduled and moves on: no
\* insert is attempted, the rows and the queue stay as they are, and no
\* other count changes (a lookup that fails counts nothing).
C14_AlreadyScheduledUntouched ==
    [][\A r \in Recoverers :
        (/\ rec[r].pc = "check"
         /\ rec[r].todo # <<>>
         /\ rec'[r] # rec[r]
         /\ RecOccurrence(RecEvent(r), Head(rec[r].years)) < rec[r].startedAt
         /\ rec[r].startedAt - RecOccurrence(RecEvent(r), Head(rec[r].years))
                <= GracePeriodMinutes
         /\ RowsFor(RecEvent(r).id,
                    RecOccurrence(RecEvent(r), Head(rec[r].years))) # {})
        => /\ rec'[r].pc = "check"
           /\ rows' = rows
           /\ queue' = queue
           /\ \/ /\ rec'[r].outcome = "alreadyScheduled"
                 /\ RecCounts(rec'[r]) =
                        [RecCounts(rec[r]) EXCEPT ![4] = @ + 1]
              \/ /\ rec'[r].outcome = "error: store"
                 /\ RecCounts(rec'[r]) = RecCounts(rec[r])]_vars

\* A run has finished that found the stored row of an occurrence 48 hours
\* old: one alreadyScheduled, the row as it was, nothing enqueued.
C14_Witness ==
    /\ Age = 48 * 60
    /\ rows = <<FirstRow>>
    /\ queue = <<>>
    /\ rec["r1"].result = <<0, 0, 0, 1>>

\* C15: the insert of a recovery run that collides with a row stored since
\* its existence check counts the occurrence as skipped and moves on to the
\* next occurrence: the rows and the queue stay as they are, nothing is
\* counted as recovered, and the only error the step can end with is a store
\* that did not answer.
C15_CollisionSkipped ==
    [][\A r \in Recoverers :
        (/\ rec[r].pc = "insert"
         /\ rec'[r] # rec[r]
         /\ RowsFor(RecEvent(r).id, rec[r].occ) # {})
        => /\ rec'[r].pc = "check"
           /\ rows' = rows
           /\ queue' = queue
           /\ \/ /\ rec'[r].outcome = "skipped"
                 /\ RecCounts(rec'[r]) =
                        [RecCounts(rec[r]) EXCEPT ![3] = @ + 1]
              \/ /\ rec'[r].outcome = "error: store"
                 /\ RecCounts(rec'[r]) = RecCounts(rec[r])]_vars

\* A recovery run has returned after its insert collided with the row of a
\* scheduler run: one missed, none recovered, one skipped, and the queue
\* holds the scheduler's envelope only.
C15_Witness ==
    /\ rec["r1"].pc = "idle"
    /\ rec["r1"].result = <<1, 0, 1, 0>>
    /\ Len(rows) = 1
    /\ Len(queue) = 1
    /\ queue[1].body.value.idempotencyKey =
            generateIdempotencyKey(FirstEvent.id, getYear(FirstOccurrence))

-----------------------------------------------------------------------------
(* A batch of two events, one scheduler replica and one recovery replica:    *)
(* the first event's time zone may be one the runtime does not know, the     *)
(* second event's kind one that has no job type                              *)

BatchZones == {"America/New_York", "Mars/Olympus_Mons"}

\* Before both occurrences of 2025, and after both, within the grace period.
BatchInstants == {StartInstant, NewDate(2025, 2, 11, 0, 0)}

BatchTable(zone1, kind2) == [EventTable(kind2) EXCEPT ![1].timezone = zone1]

InitBatch ==
    /\ now \in BatchInstants
    /\ \E zone1 \in BatchZones, kind2 \in EventKinds :
         events = BatchTable(zone1, kind2)
    /\ rows = <<>>
    /\ queue = <<>>
    /\ sched = [r \in Schedulers |-> SchedIdle]
    /\ rec = [r \in Recoverers |-> RecIdle]
    /\ runs = [sched |-> 0, rec |-> 0]
    /\ processors = <<>>
    /\ worker = [w \in Workers |-> <<>>]
    /\ deliveries = <<>>
    /\ metrics = {}
    /\ invoked = {}
    /\ deleteCalls = {}
    /\ loop = [w \in Workers |-> LoopIdle]
    /\ shutdownRequested = [w \in Workers |-> FALSE]
    /\ isRunning = [w \in Workers |-> TRUE]
    /\ sinkUp = TRUE
    /\ initialized = FALSE
    /\ lastRegister = NoRegister
    /\ LegacyOff
    /\ failedAttempts = <<>>
    /\ batchCounts = [w \in Workers |-> NoCounts]

NextBatch ==
    \/ SchedStart("s1")
    \/ SchedCompute("s1")
    \/ SchedInsert("s1")
    \/ SchedEnqueue("s1")
    \/ SchedFinish("s1")
    \/ \E r \in Recoverers : RecStart(r)
    \/ \E r \in Recoverers : RecCheck(r)
    \/ \E r \in Recoverers : RecInsert(r)
    \/ \E r \in Recoverers : RecEnqueue(r)
    \/ \E r \in Recoverers : RecFinish(r)

SpecBatch == InitBatch /\ [][NextBatch]_vars

\* C17, as stated: a scheduler run that met an event whose kind has no job
\* type does not go on to other events and does not return a count.
C17_UnknownKindFatal ==
    \A r \in Schedulers :
        sched[r].outcome = "error: Unknown EventType"
            => /\ sched[r].pc \notin {"insert", "enqueue"}
               /\ sched[r].result = -1

\* The outcomes of an event (scheduler) or of a year (recovery) that are
\* errors caught and logged.
IsError(outcome) ==
    outcome \in {"error: store", "error: send", "error: Unknown EventType",
                 "error: Invalid timezone", "error: P2002"}

SchedRunning(r) == sched[r].pc \in {"compute", "insert", "enqueue"}

RecRunning(r) == rec[r].pc \in {"check", "insert", "enqueue"}

\* C18: a step of a scheduler run or of a recovery run that ends an event
\* (a year of an event) in an error only moves the loop on by one: the rest
\* of the batch is still to be handled, the counts are as before, and the
\* run has not ended.
C18_ErrorsStayLocal ==
    /\ [][\A r \in Schedulers :
            (sched'[r] # sched[r] /\ SchedRunning(r) /\ IsError(sched'[r].outcome)
                /\ sched'[r].todo # sched[r].todo)
            => /\ sched'[r].pc = "compute"
               /\ sched'[r].todo = Tail(sched[r].todo)
               /\ sched'[r].scheduled = sched[r].scheduled
               /\ sched'[r].result = -1]_vars
    /\ [][\A r \in Recoverers :
            (rec'[r] # rec[r] /\ RecRunning(r) /\ IsError(rec'[r].outcome)
                /\ <<rec'[r].todo, rec'[r].years>> # <<rec[r].todo, rec[r].years>>)
            => /\ rec'[r].pc = "check"
               /\ \/ /\ Len(rec[r].years) > 1
                     /\ rec'[r].years = Tail(rec[r].years)
                     /\ rec'[r].todo = rec[r].todo
                  \/ /\ Len(rec[r].years) = 1
                     /\ rec'[r].todo = Tail(rec[r].todo)
               /\ RecCounts(rec'[r]) = RecCounts(rec[r])
               /\ rec'[r].result = <<>>]_vars

\* A scheduler run has returned 1: the first event ended in an error (its
\* time zone is unknown) and the second event has its row and its envelope.
C18_Witness ==
    /\ events[1].timezone \notin Timezones
    /\ sched["s1"].pc = "idle"
    /\ sched["s1"].result = 1
    /\ rec["r1"] = RecIdle
    /\ Len(rows) = 1
    /\ rows[1].eventId = events[2].id
    /\ Len(queue) = 1
    /\ queue[1].body.value.payload.eventId = events[2].id

-----------------------------------------------------------------------------
(* Properties of a batch and of the polling loop *)

\* The messages of worker w's batch whose attempt a step touched.
Touched(w) ==
    {m \in DOMAIN worker[w] \cap DOMAIN worker'[w] :
        worker'[w][m] # worker[w][m]}

\* C19: the messages of one received batch are processed independently: a
\* step of one message's attempt changes neither the attempt nor the queue
\* entry of any other message of the batch, and the batch ends only when
\* every attempt has settled on its own outcome, whatever the others did: an
\* attempt whose handler succeeded has called for the message's deletion, and
\* an attempt whose handler failed or threw has not, its message still in the
\* queue.
C19_BatchIndependent ==
    [][\A w \in Workers :
        /\ \A m \in Touched(w) :
              \A other \in DOMAIN worker[w] \ {m} :
                  /\ worker'[w][other] = worker[w][other]
                  /\ queue'[other] = queue[other]
        /\ (worker[w] # <<>> /\ worker'[w] = <<>>) =>
              \A m \in DOMAIN worker[w] :
                  /\ worker[w][m].pc = "done"
                  /\ worker[w][m].result = "success" =>
                        /\ worker[w][m].deleted # "no"
                        /\ m \in deleteCalls
                  /\ worker[w][m].result \in {"failure", "rejected"} =>
                        /\ worker[w][m].deleted = "no"
                        /\ queue[m].st # "deleted"]_vars

\* A batch of two settled: the handler of one message threw and its message
\* is still in the queue, the handler of the other succeeded and its message
\* is deleted.
C19_Witness ==
    \E w \in Workers :
        /\ DOMAIN worker[w] = {1, 2}
        /\ Settled(w)
        /\ worker[w][1].result = "success"
        /\ worker[w][1].deleted = "ok"
        /\ queue[1].st = "deleted"
        /\ worker[w][2].result = "rejected"
        /\ queue[2].st = "inflight"

\* C20: after a poll whose receiveMessages failed, the loop has slept longer
\* than the normal poll interval.
C20_BacksOffAfterReceiveError ==
    \A w \in Workers :
        loop[w].ended = "error" => loop[w].slept > pollInterval

-----------------------------------------------------------------------------
(* The worker and the termination signal *)

NextShutdown ==
    \/ NextWorker
    \/ \E w \in Workers : onModuleDestroy(w)
    \/ \E w \in Workers : StopPolling(w)

\* The event loop runs the continuation of startPolling once its batch is
\* over.
FairShutdown == FairWorker /\ \A w \in Workers : WF_vars(StopPolling(w))

SpecShutdown == InitRetry /\ [][NextShutdown]_vars /\ FairShutdown

\* C21: once the shutdown flag of a worker is set, no receive of that worker
\* starts (no message's receive count grows and no poll is recorded); the
\* attempts of its batch in flight go on and the batch ends only when all of
\* them have settled; the loop ends only between batches, and it does end:
\* isRunning becomes false.
C21_GracefulShutdown ==
    /\ [][\A w \in Workers :
            /\ shutdownRequested[w] =>
                  /\ \A m \in 1..Len(queue) :
                        queue'[m].receiveCount = queue[m].receiveCount
                  /\ loop'[w] # loop[w] => loop'[w].ended = "batch"
                  /\ (worker[w] # <<>> /\ worker'[w] = <<>>) => Settled(w)
            /\ (isRunning[w] /\ ~isRunning'[w]) =>
                  shutdownRequested[w] /\ worker[w] = <<>>]_vars
    /\ \A w \in Workers : shutdownRequested[w] ~> ~isRunning[w]

\* The flag was set while a message was being processed; the attempt went on
\* to success and to the delete, and the loop then ended.
C21_Witness ==
    \E w \in Workers :
        /\ shutdownRequested[w]
        /\ ~isRunning[w]
        /\ worker[w] = <<>>
        /\ loop[w] = Loop("batch", 0)
        /\ queue[1].st = "deleted"
        /\ queue[1].receiveCount = 1

-----------------------------------------------------------------------------
(* The worker against a queue that holds more messages than one poll asks   *)
(* for, each of them on its last receive                                     *)

InitLimit ==
    /\ now = StartInstant
    /\ events = SubSeq(EventTable("ANNIVERSARY"), 1, 1)
    /\ rows = <<NewRow(<<>>, FirstEvent.id, FirstOccurrence)>>
    /\ queue = [m \in 1..(concurrency + 1) |->
                 [body |-> IF m = 1 THEN Stringify(FirstEnvelope)
                           ELSE Body("invalid", {}, FirstEnvelope),
                  receiveCount |-> maxReceiveCount - 1, st |-> "visible"]]
    /\ sched = [r \in Schedulers |-> SchedIdle]
    /\ rec = [r \in Recoverers |-> RecIdle]
    /\ runs = [sched |-> 0, rec |-> 0]
    /\ processors = <<>>
    /\ worker = [w \in Workers |-> <<>>]
    /\ deliveries = <<>>
    /\ metrics = {}
    /\ invoked = {}
    /\ deleteCalls = {}
    /\ loop = [w \in Workers |-> LoopIdle]
    /\ shutdownRequested = [w \in Workers |-> FALSE]
    /\ isRunning = [w \in Workers |-> TRUE]
    /\ sinkUp = TRUE
    /\ initialized = FALSE
    /\ lastRegister = NoRegister
    /\ LegacyOff
    /\ failedAttempts = <<>>
    /\ batchCounts = [w \in Workers |-> NoCounts]

SpecLimit == InitLimit /\ [][NextWorker]_vars

\* The attempts of worker w that have not settled.
Running(w) == {m \in DOMAIN worker[w] : worker[w][m].pc # "done"}

\* C22: a worker never runs more attempts at once than the concurrency limit,
\* and never more than 10: a poll hands it at most that many messages, and a
\* receive starts only when the worker holds no batch, which it does only
\* after every attempt of the batch before has settled.
C22_ConcurrencyBounded ==
    /\ [](\A w \in Workers :
            /\ Cardinality(Running(w)) <= concurrency
            /\ Cardinality(DOMAIN worker[w]) <= concurrency
            /\ Cardinality(DOMAIN worker[w]) <= 10)
    /\ [][\A w \in Workers :
            /\ (\E m \in DOMAIN worker'[w] : m \notin DOMAIN worker[w]) =>
                    worker[w] = <<>>
            /\ (worker[w] # <<>> /\ worker'[w] = <<>>) => Running(w) = {}]_vars

\* A worker runs as many attempts as the limit allows while one more message
\* waits visible in the queue.
C22_Witness ==
    \E w \in Workers :
        /\ Cardinality(Running(w)) = concurrency
        /\ \E m \in 1..Len(queue) : m \notin DOMAIN worker[w] /\ Visible(m)

-----------------------------------------------------------------------------
(* Scheduler, recovery scanner and worker with the metrics sink up or down, *)
(* from a state where one scheduler run and one scan are still to start, the *)
(* day after an occurrence was missed; every message is received within its  *)
(* visibility timeout                                                        *)

InitSink ==
    /\ now = NewDate(2025, 2, 11, 0, 0)
    /\ events = SubSeq(EventTable("ANNIVERSARY"), 1, 1)
    /\ rows = <<>>
    /\ queue = <<[body |-> Body("invalid", {}, FirstEnvelope),
                  receiveCount |-> maxReceiveCount - 1, st |-> "visible"]>>
    /\ sched = [r \in Schedulers |-> SchedIdle]
    /\ rec = [r \in Recoverers |-> RecIdle]
    /\ runs = [sched |-> MaxSchedRuns - 1, rec |-> MaxRecRuns - 1]
    /\ processors = <<>>
    /\ worker = [w \in Workers |-> <<>>]
    /\ deliveries = <<>>
    /\ metrics = {}
    /\ invoked = {}
    /\ deleteCalls = {}
    /\ loop = [w \in Workers |-> LoopIdle]
    /\ shutdownRequested = [w \in Workers |-> FALSE]
    /\ isRunning = [w \in Workers |-> TRUE]
    /\ sinkUp \in BOOLEAN
    /\ initialized = FALSE
    /\ lastRegister = NoRegister
    /\ LegacyOff
    /\ failedAttempts = <<>>
    /\ batchCounts = [w \in Workers |-> NoCounts]

NextSink ==
    \/ SchedStart("s1")
    \/ SchedCompute("s1")
    \/ SchedInsert("s1")
    \/ SchedEnqueue("s1")
    \/ SchedFinish("s1")
    \/ \E r \in Recoverers : RecStart(r)
    \/ \E r \in Recoverers : RecCheck(r)
    \/ \E r \in Recoverers : RecInsert(r)
    \/ \E r \in Recoverers : RecEnqueue(r)
    \/ \E r \in Recoverers : RecFinish(r)
    \/ RegisterProcessors
    \/ \E w \in Workers : Poll(w)
    \/ \E w \in Workers : PollEmpty(w)
    \/ \E w \in Workers : PollFails(w)
    \/ \E w \in Workers, m \in 1..Len(queue) : RejectInvalid(w, m)
    \/ \E w \in Workers, m \in 1..Len(queue) : RejectUnregistered(w, m)
    \/ \E w \in Workers, m \in 1..Len(queue) : Dispatch(w, m)
    \/ \E w \in Workers, m \in 1..Len(queue) : Send(w, m)
    \/ \E w \in Workers, m \in 1..Len(queue) : Update(w, m)
    \/ \E w \in Workers, m \in 1..Len(queue) : Ack(w, m)
    \/ \E w \in Workers : BatchDone(w)

SpecSink == InitSink /\ [][NextSink]_vars

\* C23: with the metrics sink up or down alike, a scheduler run returns the
\* count of the occurrences it scheduled, a recovery scan returns its four
\* counts, and an attempt of the worker has deleteMessage called exactly
\* when it ended as success, invalid or unregistered: no failed metric call
\* turns a run into an error or changes what happens to a message.
C23_SinkFailureContained ==
    [][/\ \A r \in Schedulers :
            (sched[r].pc = "compute" /\ sched'[r].pc = "idle") =>
                sched'[r].result = sched[r].scheduled
       /\ \A r \in Recoverers :
            (rec[r].pc = "check" /\ rec'[r].pc = "idle") =>
                rec'[r].result = RecCounts(rec[r])
       /\ \A w \in Workers :
            \A m \in DOMAIN worker[w] \cap DOMAIN worker'[w] :
                (worker[w][m].pc # "done" /\ worker'[w][m].pc = "done") =>
                    /\ worker'[w][m].deleted # "no" <=>
                          worker'[w][m].result \in
                              {"success", "invalid", "unregistered"}
                    /\ worker'[w][m].deleted # "no" => m \in deleteCalls'
       ]_vars

\* The sink is down; the scheduler run has returned 1, the recovery scan
\* has returned one recovered occurrence, both notifications were sent and
\* their messages deleted, and the invalid message was deleted too.
C23_Witness ==
    /\ ~sinkUp
    /\ sched["s1"].result = 1
    /\ rec["r1"].result = <<1, 1, 0, 0>>
    /\ <<"SchedulerMessagesCreated", 0>> \in metrics
    /\ <<"RecoveryMessagesRecovered", 0>> \in metrics
    /\ <<"JobValidationFailure", 1>> \in metrics
    /\ <<"JobProcessingSuccess", 2>> \in metrics
    /\ <<"JobProcessingSuccess", 3>> \in metrics
    /\ Len(queue) = 3
    /\ \A m \in 1..3 : queue[m].st = "deleted"

-----------------------------------------------------------------------------
(* The occurrence calculator over a range of events, zones and reference    *)
(* instants                                                                  *)

\* <<month, day>> of the event date, month 0-indexed: 1 January, 29 February,
\* the days daylight saving time starts and ends in New York in 2025, and
\* 31 December.
CalcDays == {<<0, 1>>, <<1, 29>>, <<2, 9>>, <<10, 2>>, <<11, 31>>}

\* <<hours, minutes>> of the notification time.
CalcTimes == {<<2, 30>>, <<8, 0>>, <<9, 0>>, <<23, 30>>}

CalcZones == Timezones \cup {"Mars/Olympus_Mons"}

\* Reference instants (new Date() of the run).
CalcInstants ==
    { NewDate(2024, 0, 1, 0, 0), NewDate(2024, 11, 31, 23, 30),
      NewDate(2025, 0, 1, 0, 0), NewDate(2025, 2, 9, 13, 0),
      NewDate(2025, 10, 2, 14, 0) }

CalcEvent(date, time, zone) ==
    [id |-> "e1", type |-> "BIRTHDAY", userId |-> "u1", month |-> date[1],
     day |-> date[2], notificationTime |-> time, enabled |-> TRUE,
     timezone |-> zone]

InitCalc ==
    /\ now \in CalcInstants
    /\ \E date \in CalcDays, time \in CalcTimes, zone \in CalcZones :
         events = <<CalcEvent(date, time, zone)>>
    /\ rows = <<>>
    /\ queue = <<>>
    /\ sched = [r \in Schedulers |-> SchedIdle]
    /\ rec = [r \in Recoverers |-> RecIdle]
    /\ runs = [sched |-> MaxSchedRuns - 1, rec |-> 0]
    /\ processors = <<>>
    /\ worker = [w \in Workers |-> <<>>]
    /\ deliveries = <<>>
    /\ metrics = {}
    /\ invoked = {}
    /\ deleteCalls = {}
    /\ loop = [w \in Workers |-> LoopIdle]
    /\ shutdownRequested = [w \in Workers |-> FALSE]
    /\ isRunning = [w \in Workers |-> TRUE]
    /\ sinkUp = TRUE
    /\ initialized = FALSE
    /\ lastRegister = NoRegister
    /\ LegacyOff
    /\ failedAttempts = <<>>
    /\ batchCounts = [w \in Workers |-> NoCounts]

NextCalc ==
    \/ SchedStart("s1")
    \/ SchedCompute("s1")
    \/ SchedInsert("s1")
    \/ SchedEnqueue("s1")
    \/ SchedFinish("s1")

SpecCalc == InitCalc /\ [][NextCalc]_vars

\* The zone's offset from UTC, in minutes, at the instant t: New York moves
\* to daylight time at 07:00Z on the second Sunday of March and back at
\* 06:00Z on the first Sunday of November.
OffsetAt(timezone, t) ==
    CASE timezone = "America/New_York" ->
            LET y == getYear(t)
                dstStart == NthSunday(y, 3, 2) * MinPerDay + 7 * MinPerHour
                dstEnd == NthSunday(y, 11, 1) * MinPerDay + 6 * MinPerHour
            IN  IF dstStart <= t /\ t < dstEnd
                THEN -4 * MinPerHour ELSE -5 * MinPerHour
      [] timezone = "Asia/Tokyo" -> 9 * MinPerHour
      [] OTHER -> 0

\* date-fns-tz toZonedTime: the wall clock of the zone at the instant t.
toZonedTime(t, timezone) == t + OffsetAt(timezone, t)

\* date-fns-tz formatInTimeZone(t, timezone, 'HH:mm'), as <<hours, minutes>>.
formatInTimeZone(t, timezone) ==
    LET wall == toZonedTime(t, timezone)
    IN  <<(wall % MinPerDay) \div MinPerHour, wall % MinPerHour>>

\* The event of the run and the occurrence nextOccurrence returned for it.
Computed(r) == sched[r].pc = "insert"

CalcEventOf(r) == events[EventById(sched[r].event)]

\* C24, as stated: the instant nextOccurrence returns is strictly after the
\* reference instant.
C24_StrictlyAfter ==
    \A r \in Schedulers : Computed(r) => sched[r].occ > now

\* The calendar day, as a day count, of the zone's wall clock at instant t.
LocalDay(t, timezone) == toZonedTime(t, timezone) \div MinPerDay

\* The year of the zone's wall clock at instant t.
LocalYear(t, timezone) == getYear(toZonedTime(t, timezone))

\* C25: the occurrence of a 29 February event falls, on the wall clock of
\* the event's zone, on 29 February when that year is a leap year and on
\* 28 February when it is not; the event at 09:00 in New York, computed from
\* 2025-01-01T00:00Z, is due at 2025-02-28T14:00Z.
C25_Feb29Policy ==
    \A r \in Schedulers :
        (Computed(r) /\ CalcEventOf(r).month = 1 /\ CalcEventOf(r).day = 29) =>
            LET zone == CalcEventOf(r).timezone
                year == LocalYear(sched[r].occ, zone)
            IN  /\ LocalDay(sched[r].occ, zone) =
                      DaysFromCivil(year, 2, IF isLeapYear(year) THEN 29 ELSE 28)
                /\ (/\ zone = "America/New_York"
                    /\ CalcEventOf(r).notificationTime = <<9, 0>>
                    /\ now = NewDate(2025, 0, 1, 0, 0))
                      => sched[r].occ = NewDate(2025, 1, 28, 14, 0)

\* The 29 February event at 09:00 in New York, computed from
\* 2025-01-01T00:00Z, is due at 2025-02-28T14:00Z.
C25_Witness ==
    /\ now = NewDate(2025, 0, 1, 0, 0)
    /\ Computed("s1")
    /\ CalcEventOf("s1").month = 1 /\ CalcEventOf("s1").day = 29
    /\ CalcEventOf("s1").timezone = "America/New_York"
    /\ CalcEventOf("s1").notificationTime = <<9, 0>>
    /\ sched["s1"].occ = NewDate(2025, 1, 28, 14, 0)

\* The same event computed from 2024-01-01T00:00Z is due on 29 February
\* 2024.
C25_LeapWitness ==
    /\ now = NewDate(2024, 0, 1, 0, 0)
    /\ Computed("s1")
    /\ CalcEventOf("s1").timezone = "America/New_York"
    /\ CalcEventOf("s1").notificationTime = <<9, 0>>
    /\ sched["s1"].occ = NewDate(2024, 1, 29, 14, 0)

\* C26, as stated: on the wall clock of the event's zone the occurrence
\* reads the configured notification time, whatever the date.
C26_LocalTimeExact ==
    \A r \in Schedulers :
        Computed(r) =>
            formatInTimeZone(sched[r].occ, CalcEventOf(r).timezone) =
                CalcEventOf(r).notificationTime

\* The offsets the zones of the model take.
ZoneOffsets == {-5 * MinPerHour, -4 * MinPerHour, 0, 9 * MinPerHour}

\* Some instant reads `wall` on the wall clock of the zone: false for the
\* hour that the start of daylight saving time skips.
WallExists(timezone, wall) ==
    \E offset \in ZoneOffsets : OffsetAt(timezone, wall - offset) = offset

\* C26, amended: on the wall clock of the event's zone the occurrence reads
\* the configured notification time on every date on which that time
\* exists, the dates daylight saving time starts and ends included; a
\* notification time inside the hour skipped at the start of daylight saving
\* time gives the instant that reads one hour earlier.
C26_LocalTimeWhereItExists ==
    \A r \in Schedulers :
        Computed(r) =>
            LET zone == CalcEventOf(r).timezone
                time == CalcEventOf(r).notificationTime
                wall == LocalDay(sched[r].occ, zone) * MinPerDay
                            + time[1] * MinPerHour + time[2]
            IN  IF WallExists(zone, wall)
                THEN formatInTimeZone(sched[r].occ, zone) = time
                ELSE formatInTimeZone(sched[r].occ, zone) = <<time[1] - 1, time[2]>>

\* The event of 9 March at 09:00 in New York, the day daylight saving time
\* starts in 2025: the occurrence is 13:00Z and reads 09:00, while 09:00 of
\* the day before is 14:00Z.
C26_Witness ==
    /\ Computed("s1")
    /\ CalcEventOf("s1").timezone = "America/New_York"
    /\ CalcEventOf("s1").notificationTime = <<9, 0>>
    /\ sched["s1"].occ = NewDate(2025, 2, 9, 13, 0)
    /\ formatInTimeZone(sched["s1"].occ, "America/New_York") = <<9, 0>>
    /\ toUtc(<<9, 0>>, "America/New_York", <<2025, 2, 8>>) = NewDate(2025, 2, 8, 14, 0)

\* C27: for an event whose timezone identifier cannot be resolved the step
\* that calls nextOccurrence gets the invalid-timezone error and no instant:
\* nothing is computed, stored or enqueued for the event; with an identifier
\* that resolves, no such error is raised and an instant is returned.
C27_InvalidTimezoneThrows ==
    [][\A r \in Schedulers :
        (/\ sched[r].pc = "compute" /\ sched[r].todo # <<>>
         /\ sched'[r] # sched[r]) =>
            LET e == events[EventById(Head(sched[r].todo))]
            IN  IF e.timezone \in Timezones
                THEN /\ sched'[r].pc = "insert"
                     /\ sched'[r].outcome # "error: Invalid timezone"
                     /\ sched'[r].occ =
                           nextOccurrence(e, now, e.timezone, "USE_FEB_28")
                ELSE /\ sched'[r].pc = "compute"
                     /\ sched'[r].outcome = "error: Invalid timezone"
                     /\ sched'[r].occ = 0
                     /\ sched'[r].year = 0
                     /\ rows' = rows /\ queue' = queue]_vars

\* The run met the event with the identifier Mars/Olympus_Mons: the error was
\* logged, and the run ended with nothing scheduled.
C27_Witness ==
    /\ events[1].timezone = "Mars/Olympus_Mons"
    /\ sched["s1"].outcome = "error: Invalid timezone"
    /\ sched["s1"].result = 0
    /\ rows = <<>> /\ queue = <<>>

\* Event ids and years to tell keys apart with, ids that contain a colon or
\* end in digits included.
KeyEventIds == EventIds \cup {"e", "e1:2025", "e1:20", "e12"}

KeyYears == Years \cup {5, 25, 202, 12025}

\* C28: the key of (event, year) is the text event:{eventId}:{year}; two
\* calls give the same key exactly when they have the same event id and the
\* same year, so the keys of two years of one event, and of two events in
\* one year, differ; every envelope the scheduler enqueues carries the key
\* of its event and of the year of its occurrence.
C28_KeyInjective ==
    /\ generateIdempotencyKey("e1", 2025) = "event:e1:2025"
    /\ \A id1 \in KeyEventIds, id2 \in KeyEventIds :
         \A year1 \in KeyYears, year2 \in KeyYears :
            (generateIdempotencyKey(id1, year1) = generateIdempotencyKey(id2, year2))
                <=> (id1 = id2 /\ year1 = year2)
    /\ \A m \in 1..Len(queue) :
         LET envelope == queue[m].body.value
         IN  /\ envelope.idempotencyKey =
                    generateIdempotencyKey(envelope.payload.eventId,
                                           envelope.payload.year)
             /\ envelope.idempotencyKey #
                    generateIdempotencyKey(envelope.payload.eventId,
                                           envelope.payload.year + 1)

\* The scheduler enqueued the envelope of the 2025 occurrence of e1 under the
\* key event:e1:2025, which is not the key of 2026.
C28_Witness ==
    /\ Len(queue) = 1
    /\ queue[1].body.value.payload.year = 2025
    /\ queue[1].body.value.idempotencyKey = "event:e1:2025"
    /\ queue[1].body.value.idempotencyKey # generateIdempotencyKey("e1", 2026)

-----------------------------------------------------------------------------
(* The job registry under register calls of any module *)

\* The processors a caller may hand to register.
Handlers == {"birthdayProcessor", "anniversaryProcessor", "otherProcessor"}

InitRegistry ==
    /\ now = StartInstant
    /\ events = SubSeq(EventTable("ANNIVERSARY"), 1, 1)
    /\ rows = <<>>
    /\ queue = <<>>
    /\ sched = [r \in Schedulers |-> SchedIdle]
    /\ rec = [r \in Recoverers |-> RecIdle]
    /\ runs = [sched |-> 0, rec |-> 0]
    /\ processors = <<>>
    /\ worker = [w \in Workers |-> <<>>]
    /\ deliveries = <<>>
    /\ metrics = {}
    /\ invoked = {}
    /\ deleteCalls = {}
    /\ loop = [w \in Workers |-> LoopIdle]
    /\ shutdownRequested = [w \in Workers |-> FALSE]
    /\ isRunning = [w \in Workers |-> TRUE]
    /\ sinkUp = TRUE
    /\ initialized = FALSE
    /\ lastRegister = NoRegister
    /\ LegacyOff
    /\ failedAttempts = <<>>
    /\ batchCounts = [w \in Workers |-> NoCounts]

NextRegistry ==
    \/ RegistryInit
    \/ RegisterProcessors
    \/ \E type \in JobTypes, processor \in Handlers : Register(type, processor)

SpecRegistry == InitRegistry /\ [][NextRegistry]_vars

\* C29: a register call for a type that has a processor throws and changes
\* nothing: getProcessor still returns the processor registered first, for
\* that type and for every other, and the registered count is the same; a
\* call for a type without one does not throw and makes its processor the
\* one getProcessor returns.
C29_DuplicateRegisterFails ==
    [][(lastRegister' # lastRegister \/ processors' # processors) =>
        LET call == lastRegister'
        IN  IF call.type \in DOMAIN processors
            THEN /\ call.threw
                 /\ \A type \in JobTypes : getProcessor(type)' = getProcessor(type)
                 /\ getRegisteredCount' = getRegisteredCount
            ELSE /\ ~call.threw
                 /\ call.type \in DOMAIN processors'
                 /\ processors'[call.type] = call.processor
                 /\ \A type \in DOMAIN processors :
                        getProcessor(type)' = getProcessor(type)]_vars

\* Both processors were registered; a second register for the birthday type
\* with another processor threw, and the registry still answers with the
\* first.
C29_Witness ==
    /\ lastRegister =
          RegisterCall("BIRTHDAY_NOTIFICATION", "otherProcessor", TRUE)
    /\ getProcessor("BIRTHDAY_NOTIFICATION") = "birthdayProcessor"
    /\ getRegisteredCount = 2

\* C30, as stated: once onModuleInit of the registry has run, the registered
\* types and their processors never change.
C30_ImmutableAfterInit ==
    [][initialized => processors' = processors]_vars

\* C31: after any sequence of register calls, for every job type:
\* hasProcessor is true exactly when getProcessor returns a processor; the
\* registered count is the number of types hasProcessor is true of; and
\* getProcessor answers with the processor handed to the register call that
\* succeeded for the type (a call that threw, or a call for another type,
\* leaves the answer as it was, so a type never registered stays absent).
\* EventsModule.onModuleInit makes two calls in one step, the birthday one
\* first.
C31_RegistryQueriesAgree ==
    [][LET call == lastRegister'
           Agree(has, get, count) ==
               /\ \A type \in JobTypes : has[type] <=> get[type] # "undefined"
               /\ count = Cardinality({type \in JobTypes : has[type]})
           has0 == [type \in JobTypes |-> hasProcessor(type)]
           get0 == [type \in JobTypes |-> getProcessor(type)]
       IN  /\ Agree(has0, get0, getRegisteredCount)
           /\ Agree(has0', get0', getRegisteredCount')
           /\ \A type \in JobTypes :
                 IF has0[type] \/ ~has0'[type]
                 THEN get0'[type] = get0[type]
                 ELSE \/ /\ call.type = type
                         /\ ~call.threw
                         /\ get0'[type] = call.processor
                      \/ /\ type = "BIRTHDAY_NOTIFICATION"
                         /\ call = RegisterCall("ANNIVERSARY_NOTIFICATION",
                                                "anniversaryProcessor", FALSE)
                         /\ ~has0["ANNIVERSARY_NOTIFICATION"]
                         /\ get0'[type] = "birthdayProcessor"]_vars

\* Only the birthday type is registered, with a processor another module
\* handed over; a later register call for it threw; the anniversary type is
\* absent and the count is one.
C31_Witness ==
    /\ getProcessor("BIRTHDAY_NOTIFICATION") = "otherProcessor"
    /\ hasProcessor("BIRTHDAY_NOTIFICATION")
    /\ ~hasProcessor("ANNIVERSARY_NOTIFICATION")
    /\ getProcessor("ANNIVERSARY_NOTIFICATION") = "undefined"
    /\ getRegisteredCount = 1
    /\ lastRegister =
          RegisterCall("BIRTHDAY_NOTIFICATION", "birthdayProcessor", TRUE)

-----------------------------------------------------------------------------
(* Legacy birthday worker: WorkerService over birthday_messages *)

maxRetries == 3
retryDelaySeconds == <<60, 300, 900>>
legacyConcurrency == 10
\* sleep(1000) between two batches, in seconds
batchSleepSeconds == 1
\* The legacy clock runs from 0 to MaxClock seconds.
MaxClock == 3

MessageIds == {"bm1"}

BirthdayMessage(status, retryCount, scheduledFor, workerInstanceId) ==
    [status |-> status, retryCount |-> retryCount,
     scheduledFor |-> scheduledFor, workerInstanceId |-> workerInstanceId]

\* The row as claimMessages read it: processMessage works on this copy.
Snapshot(id) == [id |-> id, retryCount |-> birthdayMessages[id].retryCount]

\* WHERE status = 'PENDING' AND scheduled_for <= NOW()
Due ==
    {id \in DOMAIN birthdayMessages :
        /\ birthdayMessages[id].status = "PENDING"
        /\ birthdayMessages[id].scheduledFor <= clock}

\* ORDER BY scheduled_for ASC LIMIT limit.  FOR UPDATE SKIP LOCKED skips rows
\* another transaction holds locked; the statement runs on its own, outside
\* any transaction, so its locks are gone when it returns and no other
\* statement finds a row locked by it.
SelectForUpdate(limit) ==
    IF Cardinality(Due) <= limit THEN Due
    ELSE CHOOSE S \in SUBSET Due :
            /\ Cardinality(S) = limit
            /\ \A a \in S, b \in Due \ S :
                  birthdayMessages[a].scheduledFor
                     <= birthdayMessages[b].scheduledFor

\* prisma.birthdayMessage.update({ where: { id }, data: { status, ... } })
markAs(table, id, status) == [table EXCEPT ![id].status = status]

\* The update of scheduleRetry: retryCount and status, nothing else.
retryUpdate(table, id, retryCount) ==
    [table EXCEPT ![id].retryCount = retryCount, ![id].status = "PENDING"]

\* The delay handleFailure picks for a retry.
retryDelay(newRetryCount) ==
    IF newRetryCount - 1 < Len(retryDelaySeconds)
    THEN retryDelaySeconds[newRetryCount]
    ELSE retryDelaySeconds[Len(retryDelaySeconds)]

Attempt(id, by, at, attemptNumber, success) ==
    [id |-> id, by |-> by, at |-> at, attemptNumber |-> attemptNumber,
     success |-> success]

SqsSend(target, id, retryCount, delaySeconds) ==
    [target |-> target, id |-> id, retryCount |-> retryCount,
     delaySeconds |-> delaySeconds]

\* The end of processNextBatch and the sleep of startProcessing after it.
LegacySleep == LegacyWorker(TRUE, "sleep", {}, clock + batchSleepSeconds)

\* processNextBatch up to the start of the parallel processing:
\* claimMessages selects the due PENDING rows and writes the instance id on
\* them; their status stays PENDING.
claimMessages(i) ==
    /\ legacyWorker[i].enabled
    /\ legacyWorker[i].pc = "idle"
    /\ LET messages == SelectForUpdate(legacyConcurrency)
       IN  /\ birthdayMessages' =
                 [id \in DOMAIN birthdayMessages |->
                    IF id \in messages
                    THEN [birthdayMessages[id] EXCEPT !.workerInstanceId = i]
                    ELSE birthdayMessages[id]]
           /\ legacyWorker' =
                 [legacyWorker EXCEPT ![i] =
                    IF messages = {} THEN LegacySleep
                    ELSE LegacyWorker(TRUE, "batch",
                                      {Snapshot(id) : id \in messages}, 0)]
    /\ UNCHANGED <<now, events, rows, queue, schedVars, recVars, runVars,
                   processors, worker, deliveries, metrics, invoked,
                   deleteCalls, loop, lifeVars, sinkVars, registryVars,
                   attempts, sqsSent, clock, historyVars>>

\* processMessage(message) of one claimed message, with handleFailure and
\* scheduleRetry.  user: what the user lookup finds; success: the result of
\* notificationService.send; sent: whether the queue accepted the send.
processMessage(i, message, user, success, sent) ==
    /\ legacyWorker[i].pc = "batch"
    /\ message \in legacyWorker[i].batch
    /\ LET id == message.id
           newRetryCount == message.retryCount + 1
           delaySeconds == retryDelay(newRetryCount)
       IN  IF user # "ok"
           THEN /\ birthdayMessages' = markAs(birthdayMessages, id, "SKIPPED")
                /\ UNCHANGED <<attempts, sqsSent>>
           ELSE /\ attempts' =
                      Append(attempts,
                             Attempt(id, i, clock, newRetryCount, success))
                /\ IF success
                   THEN /\ birthdayMessages' =
                              markAs(birthdayMessages, id, "SENT")
                        /\ UNCHANGED sqsSent
                   ELSE IF newRetryCount >= maxRetries
                   THEN /\ birthdayMessages' =
                              markAs(birthdayMessages, id, "FAILED")
                        /\ sqsSent' =
                              IF sent
                              THEN sqsSent \cup
                                   {SqsSend("dlq", id, newRetryCount, 0)}
                              ELSE sqsSent
                   ELSE /\ birthdayMessages' =
                              retryUpdate(birthdayMessages, id, newRetryCount)
                        /\ sqsSent' =
                              IF sent
                              THEN sqsSent \cup
                                   {SqsSend("queue", id, newRetryCount,
                                            delaySeconds)}
                              ELSE sqsSent
    /\ legacyWorker' =
          [legacyWorker EXCEPT ![i] =
             IF legacyWorker[i].batch = {message} THEN LegacySleep
             ELSE [legacyWorker[i] EXCEPT !.batch = @ \ {message}]]
    /\ UNCHANGED <<now, events, rows, queue, schedVars, recVars, runVars,
                   processors, worker, deliveries, metrics, invoked,
                   deleteCalls, loop, lifeVars, sinkVars, registryVars,
                   clock, historyVars>>

\* startProcessing: the sleep is over, the loop goes round.
startProcessing(i) ==
    /\ legacyWorker[i].pc = "sleep"
    /\ clock >= legacyWorker[i].wake
    /\ legacyWorker' =
          [legacyWorker EXCEPT ![i] = LegacyWorker(TRUE, "idle", {}, 0)]
    /\ UNCHANGED <<now, events, rows, queue, schedVars, recVars, runVars,
                   processors, worker, deliveries, metrics, invoked,
                   deleteCalls, loop, lifeVars, sinkVars, registryVars,
                   birthdayMessages, attempts, sqsSent, clock, historyVars>>

\* A second passes.
Elapse ==
    /\ clock < MaxClock
    /\ clock' = clock + 1
    /\ UNCHANGED <<now, events, rows, queue, schedVars, recVars, runVars,
                   processors, worker, deliveries, metrics, invoked,
                   deleteCalls, loop, lifeVars, sinkVars, registryVars,
                   birthdayMessages, legacyWorker, attempts, sqsSent, historyVars>>

UserLookups == {"ok", "deleted", "changed"}

\* The scheduler has created the birthday messages, due now or in a second;
\* the legacy worker is enabled on the given hosts.
InitLegacyOn(hosts) ==
    /\ now = StartInstant
    /\ events = <<>>
    /\ rows = <<>>
    /\ queue = <<>>
    /\ sched = [r \in Schedulers |-> SchedIdle]
    /\ rec = [r \in Recoverers |-> RecIdle]
    /\ runs = [sched |-> 0, rec |-> 0]
    /\ processors = <<>>
    /\ worker = [w \in Workers |-> <<>>]
    /\ deliveries = <<>>
    /\ metrics = {}
    /\ invoked = {}
    /\ deleteCalls = {}
    /\ loop = [w \in Workers |-> LoopIdle]
    /\ shutdownRequested = [w \in Workers |-> FALSE]
    /\ isRunning = [w \in Workers |-> TRUE]
    /\ sinkUp = TRUE
    /\ initialized = FALSE
    /\ lastRegister = NoRegister
    /\ \E scheduledFor \in 0..1 :
          birthdayMessages =
             [id \in MessageIds |->
                BirthdayMessage("PENDING", 0, scheduledFor, "")]
    /\ legacyWorker =
          [i \in Instances |-> LegacyWorker(i \in hosts, "idle", {}, 0)]
    /\ attempts = <<>>
    /\ sqsSent = {}
    /\ clock = 0
    /\ failedAttempts = <<>>
    /\ batchCounts = [w \in Workers |-> NoCounts]

NextLegacy ==
    \/ \E i \in Instances : claimMessages(i)
    \/ \E i \in Instances, user \in UserLookups, success, sent \in BOOLEAN :
          \E message \in legacyWorker[i].batch :
             processMessage(i, message, user, success, sent)
    \/ \E i \in Instances : startProcessing(i)
    \/ Elapse

\* One legacy worker instance.
InitLegacyOne == InitLegacyOn({"host1"})
SpecLegacyOne == InitLegacyOne /\ [][NextLegacy]_vars

\* Two legacy worker instances on the same database.
InitLegacy == InitLegacyOn(Instances)
SpecLegacy == InitLegacy /\ [][NextLegacy]_vars

\* The delivery attempts of one birthday message, oldest first.
AttemptsOf(id) ==
    LET OfId(a) == a.id = id IN SelectSeq(attempts, OfId)

\* C32, as stated: for every birthday message, an attempt that follows a
\* failed one comes no sooner than the backoff delay of that retry (60 s
\* after the first failure, 300 s after the second, 900 s after the third);
\* after a failure with fewer than three retries made the message is PENDING;
\* and a message is FAILED, or in the dead-letter queue, only after the
\* first attempt and three retries have failed.
C32_RetriesBackOff ==
    \A id \in DOMAIN birthdayMessages :
        LET tries == AttemptsOf(id)
            n == Len(tries)
        IN  /\ \A k \in 1..(n - 1) :
                  (~tries[k].success /\ k <= Len(retryDelaySeconds)) =>
                     tries[k + 1].at - tries[k].at >= retryDelaySeconds[k]
            /\ (/\ n > 0
                /\ n <= maxRetries
                /\ ~tries[n].success
                /\ birthdayMessages[id].status # "SKIPPED") =>
                   birthdayMessages[id].status = "PENDING"
            /\ (\/ birthdayMessages[id].status = "FAILED"
                \/ \E s \in sqsSent : s.target = "dlq" /\ s.id = id) =>
                   /\ n = maxRetries + 1
                   /\ \A k \in 1..n : ~tries[k].success

\* C33, as stated: no birthday message is in the claimed batch of two
\* worker instances at the same time.
C33_ClaimsExclusive ==
    \A i, j \in Instances :
        i # j =>
           {m.id : m \in legacyWorker[i].batch}
              \cap {m.id : m \in legacyWorker[j].batch} = {}

-----------------------------------------------------------------------------
(* Scheduling and recovery runs that are started and carried through *)

\* SchedCompute(r) is enabled exactly here, and each of its steps leaves
\* this position.
SchedComputing(r) == sched[r].pc = "compute" /\ sched[r].todo # <<>>

\* RecCheck(r) is enabled exactly here, and each of its steps moves on to
\* the insert, the next year or the next event.
RecChecking(r) == rec[r].pc = "check" /\ rec[r].todo # <<>>

\* The cron trigger and the start-up hook start the runs, and a run that has
\* started goes on to its end: weak fairness of every step of a run.  For
\* SchedCompute and RecCheck it is written out as "not enabled for ever".
FairSched ==
    /\ \A r \in Schedulers :
        /\ WF_vars(SchedStart(r))
        /\ []<>(~SchedComputing(r))
        /\ WF_vars(SchedInsert(r))
        /\ WF_vars(SchedEnqueue(r))
        /\ WF_vars(SchedFinish(r))
    /\ \A r \in Recoverers :
        /\ WF_vars(RecStart(r))
        /\ []<>(~RecChecking(r))
        /\ WF_vars(RecInsert(r))
        /\ WF_vars(RecEnqueue(r))
        /\ WF_vars(RecFinish(r))

SpecOrphan == Init /\ [][NextSched]_vars /\ FairSched

\* No more rows than this are ever stored: one per scheduler run and one per
\* scanned year of a recovery run.
RowIds == 1..(MaxSchedRuns + 3 * MaxRecRuns)

\* A scheduler run that has ended met row i: its insert of the same
\* occurrence was answered 'already scheduled'.
PassedOver(i) ==
    \E r \in Schedulers :
        /\ sched[r].pc = "idle"
        /\ sched[r].outcome = "duplicate"
        /\ sched[r].event = rows[i].eventId
        /\ sched[r].occ = rows[i].scheduledFor

\* C34, as stated: every PENDING notification row eventually has had an
\* envelope enqueued for its occurrence, also when the step after its insert
\* failed: a later run enqueues it.  Stated for the rows a later scheduler
\* run has met, so that a row is not counted as orphaned only because no
\* later run was started.
C34_NoOrphanRows ==
    \A i \in RowIds :
        (Len(rows) >= i /\ rows[i].status = "PENDING" /\ PassedOver(i))
           ~> (/\ Len(rows) >= i
               /\ MessagesFor(rows[i].eventId, rows[i].scheduledFor) # {})

-----------------------------------------------------------------------------
(* Start-up: the init hooks in any order *)

\* The process starts the day after an occurrence was missed.  The queue
\* holds a message from before the restart; no cron run fires during start-up.
InitStartup ==
    /\ now = NewDate(2025, 2, 11, 0, 0)
    /\ events = SubSeq(EventTable("ANNIVERSARY"), 1, 1)
    /\ rows = <<>>
    /\ queue = <<[body |-> Body("invalid", {}, FirstEnvelope),
                  receiveCount |-> maxReceiveCount - 1, st |-> "visible"]>>
    /\ sched = [r \in Schedulers |-> SchedIdle]
    /\ rec = [r \in Recoverers |-> RecIdle]
    /\ runs = [sched |-> MaxSchedRuns, rec |-> MaxRecRuns - 1]
    /\ processors = <<>>
    /\ worker = [w \in Workers |-> <<>>]
    /\ deliveries = <<>>
    /\ metrics = {}
    /\ invoked = {}
    /\ deleteCalls = {}
    /\ loop = [w \in Workers |-> LoopIdle]
    /\ shutdownRequested = [w \in Workers |-> FALSE]
    /\ isRunning = [w \in Workers |-> TRUE]
    /\ sinkUp = TRUE
    /\ initialized = FALSE
    /\ lastRegister = NoRegister
    /\ LegacyOff
    /\ failedAttempts = <<>>
    /\ batchCounts = [w \in Workers |-> NoCounts]

\* The init hooks: JobRegistry.onModuleInit, EventRecoveryService.onModuleInit
\* (a recovery run), EventsModule.onModuleInit (the registrations), and
\* JobWorkerService.onModuleInit, which starts the polling loop and does not
\* wait for it.
NextStartup ==
    \/ RegistryInit
    \/ RegisterProcessors
    \/ \E r \in Recoverers : RecStart(r)
    \/ \E r \in Recoverers : RecCheck(r)
    \/ \E r \in Recoverers : RecInsert(r)
    \/ \E r \in Recoverers : RecEnqueue(r)
    \/ \E r \in Recoverers : RecFinish(r)
    \/ \E w \in Workers : Poll(w)
    \/ \E w \in Workers : PollEmpty(w)
    \/ \E w \in Workers : PollFails(w)
    \/ \E w \in Workers, m \in 1..Len(queue) : RejectInvalid(w, m)
    \/ \E w \in Workers, m \in 1..Len(queue) : RejectUnregistered(w, m)
    \/ \E w \in Workers, m \in 1..Len(queue) : Dispatch(w, m)
    \/ \E w \in Workers, m \in 1..Len(queue) : Send(w, m)
    \/ \E w \in Workers, m \in 1..Len(queue) : Update(w, m)
    \/ \E w \in Workers, m \in 1..Len(queue) : Ack(w, m)
    \/ \E w \in Workers : BatchDone(w)

SpecStartup == InitStartup /\ [][NextStartup]_vars

\* The job types EventsModule.onModuleInit registers a processor for.
StartupTypes == {"BIRTHDAY_NOTIFICATION", "ANNIVERSARY_NOTIFICATION"}

\* C35, as stated: in whatever order the worker starts polling, the recovery
\* run enqueues and the processors are registered, no message whose job type
\* gets a processor at start-up is deleted as being of an unregistered type.
C35_NoDeleteBeforeRegistration ==
    \A m \in 1..Len(queue) :
        (/\ <<"JobTypeUnregistered", m>> \in metrics
         /\ m \in deleteCalls
         /\ ~Malformed(queue[m].body))
            => queue[m].body.value.type \notin StartupTypes

-----------------------------------------------------------------------------
(* Two worker replicas on one queue *)

Replicas == {"w1", "w2"}

\* The scheduler's row and envelope of the first occurrence are there, and
\* both processors are registered.
InitRace ==
    /\ now = StartInstant
    /\ events = SubSeq(EventTable("ANNIVERSARY"), 1, 1)
    /\ rows = <<NewRow(<<>>, FirstEvent.id, FirstOccurrence)>>
    /\ queue = <<[body |-> Stringify(FirstEnvelope), receiveCount |-> 0,
                  st |-> "visible"]>>
    /\ sched = [r \in Schedulers |-> SchedIdle]
    /\ rec = [r \in Recoverers |-> RecIdle]
    /\ runs = [sched |-> 0, rec |-> 0]
    /\ processors =
          register(register(<<>>, "BIRTHDAY_NOTIFICATION", "birthdayProcessor"),
                   "ANNIVERSARY_NOTIFICATION", "anniversaryProcessor")
    /\ worker = [w \in Replicas |-> <<>>]
    /\ deliveries = <<>>
    /\ metrics = {}
    /\ invoked = {}
    /\ deleteCalls = {}
    /\ loop = [w \in Replicas |-> LoopIdle]
    /\ shutdownRequested = [w \in Replicas |-> FALSE]
    /\ isRunning = [w \in Replicas |-> TRUE]
    /\ sinkUp = TRUE
    /\ initialized = TRUE
    /\ lastRegister = RegisterCall("ANNIVERSARY_NOTIFICATION",
                                   "anniversaryProcessor", FALSE)
    /\ LegacyOff
    /\ failedAttempts = <<>>
    /\ batchCounts = [w \in Replicas |-> NoCounts]

\* The queue and both replicas; the envelope is valid and its type is
\* registered, so the two rejecting handlers have nothing to do here.
NextRace ==
    \/ \E m \in 1..Len(queue) : Expire(m)
    \/ \E m \in 1..Len(queue) : Redrive(m)
    \/ \E w \in Replicas : Poll(w)
    \/ \E w \in Replicas : PollEmpty(w)
    \/ \E w \in Replicas : PollFails(w)
    \/ \E w \in Replicas, m \in 1..Len(queue) : Dispatch(w, m)
    \/ \E w \in Replicas, m \in 1..Len(queue) : Send(w, m)
    \/ \E w \in Replicas, m \in 1..Len(queue) : Update(w, m)
    \/ \E w \in Replicas, m \in 1..Len(queue) : Ack(w, m)
    \/ \E w \in Replicas : BatchDone(w)

SpecRace == InitRace /\ [][NextRace]_vars

\* C36, as stated: the retryCount of every notification row is the number
\* of processing attempts for it that ended with a failed delivery written
\* to the row, also when two replicas process redelivered copies of the
\* envelope at the same time.
C36_RetryCountExact ==
    \A i \in 1..Len(rows) : rows[i].retryCount = FailedAttempts(i)

\* C37, as stated: whenever a replica deletes a message because its handler
\* returned success, the notification row of that occurrence has status SENT
\* at that moment.
C37_SentWhenDeleted ==
    [][\A w \in Replicas : \A m \in 1..Len(queue) :
          (/\ m \in DOMAIN worker[w]
           /\ worker[w][m].pc = "ack"
           /\ m \in DOMAIN worker'[w]
           /\ worker'[w][m].pc = "done"
           /\ m \in deleteCalls')
             => rows[worker[w][m].rowId].status = "SENT"]_vars

-----------------------------------------------------------------------------
(* Scheduler and recovery runs for events at the turn of the year *)

\* <<month, day>> of the event date, month 0-indexed.
TurnDays == {<<0, 1>>, <<5, 15>>, <<11, 31>>}

TurnTimes == {<<0, 0>>, <<2, 30>>, <<20, 0>>}

\* new Date() of the runs: just after New Year, and just after 15 June.
TurnInstants == {NewDate(2025, 0, 2, 0, 0), NewDate(2025, 5, 16, 0, 0)}

InitTurn ==
    /\ now \in TurnInstants
    /\ \E date \in TurnDays, time \in TurnTimes, zone \in Timezones :
         events = <<CalcEvent(date, time, zone)>>
    /\ rows = <<>>
    /\ queue = <<>>
    /\ sched = [r \in Schedulers |-> SchedIdle]
    /\ rec = [r \in Recoverers |-> RecIdle]
    /\ runs = [sched |-> MaxSchedRuns - 1, rec |-> MaxRecRuns - 1]
    /\ processors = <<>>
    /\ worker = [w \in Workers |-> <<>>]
    /\ deliveries = <<>>
    /\ metrics = {}
    /\ invoked = {}
    /\ deleteCalls = {}
    /\ loop = [w \in Workers |-> LoopIdle]
    /\ shutdownRequested = [w \in Workers |-> FALSE]
    /\ isRunning = [w \in Workers |-> TRUE]
    /\ sinkUp = TRUE
    /\ initialized = FALSE
    /\ lastRegister = NoRegister
    /\ LegacyOff
    /\ failedAttempts = <<>>
    /\ batchCounts = [w \in Workers |-> NoCounts]

NextTurn ==
    \/ SchedStart("s1")
    \/ SchedCompute("s1")
    \/ SchedInsert("s1")
    \/ SchedEnqueue("s1")
    \/ SchedFinish("s1")
    \/ \E r \in Recoverers : RecStart(r)
    \/ \E r \in Recoverers : RecCheck(r)
    \/ \E r \in Recoverers : RecInsert(r)
    \/ \E r \in Recoverers : RecEnqueue(r)
    \/ \E r \in Recoverers : RecFinish(r)

SpecTurn == InitTurn /\ [][NextTurn]_vars

\* C38, as stated: every envelope in the queue, whether the scheduler or the
\* recovery scanner enqueued it, carries the key the scheduler builds for
\* its occurrence: the year in the key and payload.year are the calendar
\* year of the occurrence instant the envelope carries.
C38_KeyYearIsOccurrenceYear ==
    \A m \in 1..Len(queue) :
        LET envelope == queue[m].body.value
            year == getYear(envelope.payload.scheduledFor)
        IN  /\ envelope.payload.year = year
            /\ envelope.idempotencyKey =
                  generateIdempotencyKey(envelope.payload.eventId, year)

\* C39, as stated: in every result a recovery run returns, totalMissed is
\* recovered plus skipped.
C39_CountsAddUp ==
    \A r \in Recoverers :
        rec[r].result # <<>> =>
            rec[r].result[1] = rec[r].result[2] + rec[r].result[3]

\* C40, as stated: at the end of every batch the counts the worker reports
\* are: received, the number of messages of the batch; failed, the number of
\* them whose handler returned a failure or raised; succeeded, the number of
\* the others.
C40_BatchCountsAccurate ==
    [][\A w \in Workers :
          (worker[w] # <<>> /\ worker'[w] = <<>>) =>
             LET failures == {m \in DOMAIN worker[w] :
                                worker[w][m].result \in {"failure", "rejected"}}
                 received == Cardinality(DOMAIN worker[w])
             IN  batchCounts'[w] =
                    <<received, received - Cardinality(failures),
                      Cardinality(failures)>>]_vars

=============================================================================
